---- MODULE Spec2Model ----
(***************************************************************************)
(* whet (src/lib/whet.js, lines 1-681): the hypermedia exchange pipeline.  *)
(* An installed element is actuated, an exchange descriptor is created,    *)
(* whet:will-fetch is dispatched and awaited, the request is sent, the     *)
(* response is read and swapped into the document, and the inserted nodes  *)
(* are installed in turn.                                                  *)
(*                                                                         *)
(* The host is modelled by what the code relies on: a document tree with   *)
(* the six ChildNode/ParentNode mutation methods, CustomEvent dispatch     *)
(* (an event is cancelable only if its init dictionary says so), promises, *)
(* and the run-to-completion rule of the event loop (a continuation whose  *)
(* promise has settled runs before any further task).                      *)
(***************************************************************************)
EXTENDS Integers, Sequences, FiniteSets, TLC

VARIABLES
    page,       \* the page as authored: attributes of the trigger, listeners
    kids,       \* the node tree: node -> sequence of child nodes
    value,      \* the current value of the form's text input
    installed,  \* the WeakSet `installed`
    inst,       \* per node: trigger listeners bound, lifecycle events received
    ex,         \* the exchanges (HypermediaExchange descriptors and progress)
    nextEx,     \* the number of exchanges created so far, plus one
    encoders,   \* the Map `encoders`: content type -> encoder
    bubbling    \* the event of the user being delivered: its type and the
                \* nodes of its path it has yet to reach

vars == <<page, kids, value, installed, inst, ex, nextEx, encoders, bubbling>>

\* ------------------------------------------------------------------ bounds

\* The number of exchanges one behaviour may start.
MaxExchanges == 2

Exchanges == 1..MaxExchanges

\* ------------------------------------------------------------------ values

\* JavaScript null (an absent attribute, an unset field).
Null == "null"

\* No node (a null Element reference).
NoNode == <<-1, -1>>

Range(s) == {s[i] : i \in DOMAIN s}

\* str.startsWith(prefix)
startsWith(str, prefix) ==
    Len(str) >= Len(prefix) /\ SubSeq(str, 1, Len(prefix)) = prefix

\* str.slice(n)
slice(str, n) == SubSeq(str, n + 1, Len(str))

\* The position of the first character c of str, Len(str) + 1 when it has none.
IndexOfChar(str, c) ==
    IF \E i \in 1..Len(str) : SubSeq(str, i, i) = c
    THEN CHOOSE i \in 1..Len(str) :
             /\ SubSeq(str, i, i) = c
             /\ \A j \in 1..(i - 1) : SubSeq(str, j, j) # c
    ELSE Len(str) + 1

\* ------------------------------------------------------------------ nodes

(* A node is <<origin, index>>: origin 0 is the page as loaded, origin e     *)
(* the nodes parsed from the response of exchange e.                        *)
Document == <<0, 0>>
html == <<0, 1>>
body == <<0, 2>>
form1 == <<0, 3>>
inp == <<0, 4>>
btn == <<0, 5>>
lnk == <<0, 6>>
out == <<0, 7>>

PageNodes == {Document, html, body, form1, inp, btn, lnk, out}

\* The DocumentFragment parseHtml returns for the response of exchange e.
Frag(e) == <<e, 0>>

\* The i-th node parsed from the response of exchange e.
RNode(e, i) == <<e, i>>

\* The content fragment of a <template> parsed from a response.
TemplateContent(t) == <<t[1], -t[2]>>

ResponseNodes == {<<e, i>> : e \in Exchanges, i \in -3..5}

Nodes == PageNodes \cup ResponseNodes

(* The response bodies the server may send (a body is one line: the line   *)
(* breaks and indentation below are not part of it):                        *)
(*   text  Replaced!                                                        *)
(*   ctl   <button whet data-href="/add-more" data-target=":this"           *)
(*           data-swap="after">Add another</button>                         *)
(*   tpl   <ul id="results" class="results-list">                           *)
(*           <li class="item"></li><li class="item"></li></ul>              *)
(*         <template data-whet data-target="#out">13 results</template>     *)
(*   two   <template data-whet data-target="#missing">a</template>          *)
(*         <template data-whet data-target="#out">b</template>c             *)
(*   nest  <p><button whet data-href="/add-more" data-target=":this"        *)
(*           data-swap="after">Add another</button></p>                     *)
(*   bad   <template data-whet data-target="#out"                           *)
(*           data-swap="frobnicate">x</template>y                           *)
(*   both  <template data-whet data-target="#out"                           *)
(*           data-swap="append">a</template>                                *)
(*         <template data-whet data-target="#f"                             *)
(*           data-swap="prepend">b</template>c                              *)
(*   mixed <template data-whet data-target="#out"                           *)
(*           data-swap="append">a</template>                                *)
(*         <template data-whet data-target="#out"                           *)
(*           data-swap="frobnicate"></template>                             *)
(*         <template data-whet data-target="#f"                             *)
(*           data-swap="append">b</template>                                *)
(*   bare  <template data-whet>z</template>w                                *)
Bodies == {"text", "ctl", "tpl", "two", "nest", "bad"}

\* The top-level nodes of the parsed body, as indices (String(null) and
\* String(undefined) are text).
BodyTop(b) ==
    CASE b = "text" -> <<1>>
      [] b = "ctl" -> <<1>>
      [] b = "tpl" -> <<1, 2>>
      [] b = "two" -> <<1, 2, 5>>
      [] b = "nest" -> <<1>>
      [] b = "bad" -> <<1, 2>>
      [] b = "both" -> <<1, 2, 5>>
      [] b = "mixed" -> <<1, 2, 3>>
      [] b = "bare" -> <<1, 2>>
      [] b \in {Null, "undefined"} -> <<1>>
      [] OTHER -> <<>>

\* The children of a parsed <template>'s content, as indices.
BodyTemplateContent(b, i) ==
    CASE b = "tpl" /\ i = 2 -> <<3>>
      [] b = "two" /\ i = 1 -> <<3>>
      [] b = "two" /\ i = 2 -> <<4>>
      [] b = "bad" /\ i = 1 -> <<3>>
      [] b = "both" /\ i = 1 -> <<3>>
      [] b = "both" /\ i = 2 -> <<4>>
      [] b = "mixed" /\ i = 1 -> <<4>>
      [] b = "mixed" /\ i = 3 -> <<5>>
      [] b = "bare" /\ i = 1 -> <<3>>
      [] OTHER -> <<>>

\* The children of a parsed element, as indices.
BodyChildren(b, i) ==
    CASE b = "ctl" /\ i = 1 -> <<2>>
      [] b = "tpl" /\ i = 1 -> <<4, 5>>
      [] b = "nest" /\ i = 1 -> <<2>>
      [] b = "nest" /\ i = 2 -> <<3>>
      [] OTHER -> <<>>

BodyTag(b, i) ==
    CASE b = "ctl" /\ i = 1 -> "button"
      [] b = "tpl" /\ i = 1 -> "ul"
      [] b = "tpl" /\ i = 2 -> "template"
      [] b = "tpl" /\ i \in {4, 5} -> "li"
      [] b = "two" /\ i \in {1, 2} -> "template"
      [] b = "nest" /\ i = 1 -> "p"
      [] b = "nest" /\ i = 2 -> "button"
      [] b = "bad" /\ i = 1 -> "template"
      [] b = "both" /\ i \in {1, 2} -> "template"
      [] b = "mixed" /\ i \in {1, 2, 3} -> "template"
      [] b = "bare" /\ i = 1 -> "template"
      [] OTHER -> "#text"

BodyAttrs(b, i) ==
    CASE (b = "ctl" /\ i = 1) \/ (b = "nest" /\ i = 2) ->
            << <<"whet", "">>, <<"data-href", "/add-more">>,
               <<"data-target", ":this">>, <<"data-swap", "after">> >>
      [] b = "tpl" /\ i = 1 -> << <<"id", "results">>, <<"class", "results-list">> >>
      [] b = "tpl" /\ i = 2 ->
            << <<"data-whet", "">>, <<"data-target", "#out">> >>
      [] b = "tpl" /\ i \in {4, 5} -> << <<"class", "item">> >>
      [] b = "two" /\ i = 1 ->
            << <<"data-whet", "">>, <<"data-target", "#missing">> >>
      [] b = "two" /\ i = 2 ->
            << <<"data-whet", "">>, <<"data-target", "#out">> >>
      [] b = "bad" /\ i = 1 ->
            << <<"data-whet", "">>, <<"data-target", "#out">>,
               <<"data-swap", "frobnicate">> >>
      [] (b = "both" /\ i = 1) \/ (b = "mixed" /\ i = 1) ->
            << <<"data-whet", "">>, <<"data-target", "#out">>,
               <<"data-swap", "append">> >>
      [] b = "both" /\ i = 2 ->
            << <<"data-whet", "">>, <<"data-target", "#f">>,
               <<"data-swap", "prepend">> >>
      [] b = "mixed" /\ i = 2 ->
            << <<"data-whet", "">>, <<"data-target", "#out">>,
               <<"data-swap", "frobnicate">> >>
      [] b = "mixed" /\ i = 3 ->
            << <<"data-whet", "">>, <<"data-target", "#f">>,
               <<"data-swap", "append">> >>
      [] b = "bare" /\ i = 1 -> << <<"data-whet", "">> >>
      [] OTHER -> <<>>

PageTag(p, n) ==
    CASE n = html -> "html"
      [] n = body -> "body"
      [] n = form1 -> "form"
      [] n = inp -> p.inpTag
      [] n = btn -> "button"
      [] n = lnk -> "a"
      [] n = out -> "div"
      [] OTHER -> "#document"

OptAttr(name, v) == IF v = Null THEN <<>> ELSE << <<name, v>> >>

\* The inline listener attributes a page may give its button.
InlineAttrs ==
    << <<"on:whet:will-swap", "a()">>, <<"on-otherlibrary-event", "b()">>,
       <<"on::did-swap", "c()">> >>

\* The attributes the button has before and after its opt-in attribute.
Leading(p) ==
    CASE p.on = "first" -> InlineAttrs
      [] p.on = "builtin" -> << <<"onclick", "d()">> >> \o InlineAttrs
      [] p.on = "install" -> << <<"on::will-install", "e()">>, <<"on::init", "f()">> >>
      [] OTHER -> <<>>

Trailing(p) == IF p.on = "last" THEN InlineAttrs ELSE <<>>

\* The attributes that make the form or its first control a hypermedia
\* control of the page, when the page says so.
OptInAttrs(p, n) ==
    IF n \in p.optin
    THEN << <<"whet", "">>, <<"action", "/r">>, <<"data-target", "#out">> >>
         \o OptAttr("data-event", p.optev)
    ELSE <<>>

(* The page:                                                                *)
(*   <form id="f"><input name="q">                                          *)
(*     <button name="q" value="b" whet data-href="/r" ...></form>           *)
(*   <a whet href="/s" data-target="#out" ...></a> <div id="out"></div>     *)
PageAttrs(p, n) ==
    CASE n = form1 -> << <<"id", "f">> >> \o OptInAttrs(p, n)
      [] n = inp ->
            << <<"name", "q">> >> \o OptAttr("type", p.inpType) \o OptInAttrs(p, n)
      [] n = btn ->
            Leading(p)
            \o << <<"whet", "">> >> \o p.more
            \o OptAttr("data-href", p.href) \o << <<"value", p.val>> >>
            \o OptAttr("name", p.name)
            \o OptAttr("data-target", p.target)
            \o OptAttr("data-swap", p.swap)
            \o OptAttr("data-method", p.method)
            \o OptAttr("data-enctype", p.enctype)
            \o Trailing(p)
      [] n = lnk ->
            << <<"whet", "">>, <<"href", "/s">>, <<"data-target", "#out">> >>
            \o OptAttr("data-event", p.event)
      [] n = out -> << <<"id", "out">> >>
      [] OTHER -> <<>>

\* The body a node of origin e was parsed from.
BodyOf(S, n) == S.ex[n[1]].content

Tag(S, n) ==
    IF n[1] = 0 THEN PageTag(S.page, n)
    ELSE IF n[2] <= 0 THEN "#document-fragment"
    ELSE BodyTag(BodyOf(S, n), n[2])

Attributes(S, n) ==
    IF n[1] = 0 THEN PageAttrs(S.page, n)
    ELSE BodyAttrs(BodyOf(S, n), n[2])

IsElement(S, n) == Tag(S, n) \notin {"#text", "#document", "#document-fragment"}

RECURSIVE Lookup(_, _)
Lookup(pairs, name) ==
    IF pairs = <<>> THEN Null
    ELSE IF Head(pairs)[1] = name THEN Head(pairs)[2]
    ELSE Lookup(Tail(pairs), name)

getAttribute(S, el, name) == Lookup(Attributes(S, el), name)

\* a ?? b
Coalesce(a, b) == IF a # Null THEN a ELSE b

\* attr looking at the bare attribute first.
attrBareFirst(S, el, name) ==
    Coalesce(getAttribute(S, el, name),
        Coalesce(getAttribute(S, el, "form" \o name),
            getAttribute(S, el, "data-" \o name)))

attr(S, el, name) ==
    Coalesce(getAttribute(S, el, "data-" \o name),
        Coalesce(getAttribute(S, el, "form" \o name),
            getAttribute(S, el, name)))

\* ------------------------------------------------------------------ the tree

RECURSIVE DescList(_, _)
\* The nodes ns and their descendants, in document (pre-)order.
DescList(k, ns) ==
    IF ns = <<>> THEN <<>>
    ELSE <<Head(ns)>> \o DescList(k, k[Head(ns)]) \o DescList(k, Tail(ns))

Descendants(k, root) == DescList(k, k[root])

Parent(k, n) ==
    IF \E p \in DOMAIN k : n \in Range(k[p])
    THEN CHOOSE p \in DOMAIN k : n \in Range(k[p])
    ELSE NoNode

InDocument(k, n) == n \in Range(Descendants(k, Document))

IndexOf(s, x) == CHOOSE i \in DOMAIN s : s[i] = x

Without(s, ns) == SelectSeq(s, LAMBDA c : c \notin Range(ns))

\* Moving nodes takes them out of the parent they had.
Remove(k, ns) == [p \in DOMAIN k |-> Without(k[p], ns)]

OptIn(S, n) ==
    getAttribute(S, n, "whet") # Null \/ getAttribute(S, n, "data-whet") # Null

(* Element.matches for a class selector (.c), an ID selector (#i) or a type  *)
(* and ID selector (t#i); hashAt is the position of "#" in the selector.    *)
MatchesSimple(S, n, selector, hashAt) ==
    IF startsWith(selector, ".")
    THEN getAttribute(S, n, "class") = slice(selector, 1)
    ELSE /\ hashAt <= Len(selector)
         /\ hashAt > 1 => Tag(S, n) = SubSeq(selector, 1, hashAt - 1)
         /\ getAttribute(S, n, "id") = slice(selector, hashAt)

\* Element.matches for the selectors the library and the page use.
Matches(S, n, selector) ==
    /\ IsElement(S, n)
    /\ CASE selector = "[whet], [data-whet]" -> OptIn(S, n)
         [] selector = "template[whet], template[data-whet]" ->
                Tag(S, n) = "template" /\ OptIn(S, n)
         [] OTHER -> MatchesSimple(S, n, selector, IndexOfChar(selector, "#"))

querySelectorAll(S, selector, root) ==
    SelectSeq(Descendants(S.kids, root), LAMBDA n : Matches(S, n, selector))

FirstOrNone(all) == IF all = <<>> THEN NoNode ELSE Head(all)

querySelector(S, selector, root) == FirstOrNone(querySelectorAll(S, selector, root))

\* No shadow roots in the pages modelled: root(el) is the document.
root(S, el) == Document

\* sibs with nodes put in place of its elements from+1 .. to-1.
Splice(sibs, from, to, nodes) ==
    SubSeq(sibs, 1, from) \o nodes \o SubSeq(sibs, to, Len(sibs))

\* The three ChildNode methods, given the target's parent p and its
\* children sibs once the moved nodes are taken out.
MutateSiblings(k1, style, at, sibs, p, nodes) ==
    CASE style = "after" -> [k1 EXCEPT ![p] = Splice(sibs, at, at + 1, nodes)]
      [] style = "before" -> [k1 EXCEPT ![p] = Splice(sibs, at - 1, at, nodes)]
      [] style = "replaceWith" -> [k1 EXCEPT ![p] = Splice(sibs, at - 1, at + 1, nodes)]

\* The three ParentNode methods, on the tree with the moved nodes taken out.
MutateChildren(k1, style, target, nodes) ==
    CASE style = "replaceChildren" -> [k1 EXCEPT ![target] = nodes]
      [] style = "prepend" -> [k1 EXCEPT ![target] = nodes \o @]
      [] style = "append" -> [k1 EXCEPT ![target] = @ \o nodes]

MutateIn(k, k1, style, target, nodes, p) ==
    IF style \in {"replaceChildren", "prepend", "append"}
    THEN MutateChildren(k1, style, target, nodes)
    ELSE IF p = NoNode THEN k
    ELSE MutateSiblings(k1, style, IndexOf(k1[p], target), k1[p], p, nodes)

\* target[style](...nodes): the six swap styles are the DOM methods of the
\* same name; after, before and replaceWith do nothing on a parentless node.
Mutate(k, style, target, nodes) ==
    MutateIn(k, Remove(k, nodes), style, target, nodes, Parent(k, target))

\* ------------------------------------------------------------------ getters

FormAssociatedTags ==
    {"input", "button", "select", "textarea", "fieldset", "output", "object",
     "label", "legend", "option"}

isFormControl(S, el) == Tag(S, el) \in FormAssociatedTags

RECURSIVE FormOwnerFrom(_, _)
\* The nearest <form> among p and its ancestors, or none.
FormOwnerFrom(S, p) ==
    IF p = NoNode THEN NoNode
    ELSE IF Tag(S, p) = "form" THEN p
    ELSE FormOwnerFrom(S, Parent(S.kids, p))

\* el.form: the nearest ancestor <form>, or none.
FormOwner(S, el) == FormOwnerFrom(S, Parent(S.kids, el))

FormById(S, el, formattr) ==
    IF formattr = Null \/ formattr = "" THEN NoNode
    ELSE querySelector(S, "form#" \o formattr, root(S, el))

getAssociatedForm(S, el) ==
    IF isFormControl(S, el) THEN FormOwner(S, el)
    ELSE FormById(S, el, attr(S, el, "form"))

\* getTarget falling back to the document body when the selector matches nothing.
TargetOfOrBody(S, el, targetSelector) ==
    IF targetSelector = Null \/ targetSelector = "" THEN body
    ELSE IF targetSelector = ":this" THEN el
    ELSE IF querySelectorAll(S, targetSelector, root(S, el)) = <<>> THEN body
    ELSE querySelector(S, targetSelector, root(S, el))

\* getTarget giving no target to an element without a target attribute.
TargetOfRequired(S, el, targetSelector) ==
    IF targetSelector = Null \/ targetSelector = "" THEN NoNode
    ELSE IF targetSelector = ":this" THEN el
    ELSE querySelector(S, targetSelector, root(S, el))

TargetOf(S, el, targetSelector) ==
    IF targetSelector = Null \/ targetSelector = "" THEN body
    ELSE IF targetSelector = ":this" THEN el
    ELSE querySelector(S, targetSelector, root(S, el))

getTarget(S, el) == TargetOf(S, el, attr(S, el, "target"))

buttonLikeInputs == {"button", "submit", "reset"}

InputType(S, el) == Coalesce(getAttribute(S, el, "type"), "text")

\* getEvent without the defaults of forms and of text controls.
EventOfClick(specifiedEvent, tag, type) ==
    IF specifiedEvent # Null /\ specifiedEvent # "" THEN specifiedEvent ELSE "click"

EventOf(specifiedEvent, tag, type) ==
    IF specifiedEvent # Null /\ specifiedEvent # "" THEN specifiedEvent
    ELSE IF tag = "form" THEN "submit"
    ELSE IF tag = "textarea" THEN "change"
    ELSE IF tag = "select" THEN "change"
    ELSE IF tag = "input" /\ type \notin buttonLikeInputs THEN "change"
    ELSE "click"

getEvent(S, el) == EventOf(attr(S, el, "event"), Tag(S, el), InputType(S, el))

\* The letters, lower case and upper case, in the same order.
Letters ==
    [lower |-> "abcdefghijklmnopqrstuvwxyz", upper |-> "ABCDEFGHIJKLMNOPQRSTUVWXYZ"]

\* One character in upper case.
UpperChar(c) ==
    IF IndexOfChar(Letters.lower, c) <= Len(Letters.lower)
    THEN SubSeq(Letters.upper, IndexOfChar(Letters.lower, c),
             IndexOfChar(Letters.lower, c))
    ELSE c

RECURSIVE toUpperCase(_)
\* String.prototype.toUpperCase
toUpperCase(str) ==
    IF str = "" THEN ""
    ELSE UpperChar(SubSeq(str, 1, 1)) \o toUpperCase(slice(str, 1))

\* getHttpMethod without the defaults of anchors and forms.
MethodOfPostDefault(specifiedMethod, tag) ==
    IF specifiedMethod # Null /\ specifiedMethod # ""
    THEN toUpperCase(specifiedMethod)
    ELSE "POST"

MethodOf(specifiedMethod, tag) ==
    IF specifiedMethod # Null /\ specifiedMethod # ""
    THEN toUpperCase(specifiedMethod)
    ELSE IF tag = "a" THEN "GET"
    ELSE IF tag = "form" THEN "GET"
    ELSE "POST"

getHttpMethod(S, el) == MethodOf(attr(S, el, "method"), Tag(S, el))

\* URL.hash: the fragment with its "#", empty when the fragment is empty.
HashOf(fragment) == IF fragment = "#" THEN "" ELSE fragment

\* URL.pathname of a reference resolved against the page's location.
PathOf(path) == IF path = "" THEN "/" ELSE path

\* A URL with the javascript: scheme: its path is the text after the scheme.
ScriptUrl(href, hashAt) ==
    [protocol |-> "javascript:",
     pathname |-> SubSeq(href, Len("javascript:") + 1, hashAt - 1),
     search |-> <<>>,
     hash |-> HashOf(slice(href, hashAt - 1))]

\* A reference resolved against location.href (http://host/).
PageUrl(href, hashAt) ==
    [protocol |-> "http:",
     pathname |-> PathOf(SubSeq(href, 1, hashAt - 1)),
     search |-> <<>>,
     hash |-> HashOf(slice(href, hashAt - 1))]

(* new URL(href, location.href), for references without a query: the       *)
(* scheme, the path and the fragment. URL.protocol ends with the colon.     *)
url(href) ==
    IF startsWith(href, "javascript:")
    THEN ScriptUrl(href, IndexOfChar(href, "#"))
    ELSE PageUrl(href, IndexOfChar(href, "#"))

\* getHref looking at href before action.
getHrefHrefFirst(S, el) ==
    url(Coalesce(attr(S, el, "href"),
            Coalesce(attr(S, el, "action"),
                Coalesce(attr(S, el, "src"), ""))))

getHref(S, el) ==
    url(Coalesce(attr(S, el, "action"),
            Coalesce(attr(S, el, "href"),
                Coalesce(attr(S, el, "src"), ""))))

getEnctype(S, el) == Coalesce(attr(S, el, "enctype"), "text/x-www-form-urlencoded")

swapStyles == <<"replaceChildren", "replaceWith", "after", "before", "prepend", "append">>

swapStylesSet == Range(swapStyles)

\* The value thrown by asSwapStyle.
TypeError == "TypeError"

\* asSwapStyle falling back to the default style instead of throwing.
asSwapStyleLenient(str) == IF str \in swapStylesSet THEN str ELSE "replaceChildren"

asSwapStyle(str) == IF str \in swapStylesSet THEN str ELSE TypeError

getSwapStyle(S, el) == asSwapStyle(Coalesce(attr(S, el, "swap"), "replaceChildren"))

\* ------------------------------------------------------------------ form data

\* el.name and el.value of a form control.
ControlName(S, el) == Coalesce(getAttribute(S, el, "name"), "")

\* The input types whose value is the value attribute, "on" without one.
checkableInputs == {"checkbox", "radio"}

\* The control holds text the user edits: a textarea, or an input that is
\* neither a button nor a checkbox or radio button.
IsTextControl(S, el) ==
    \/ Tag(S, el) = "textarea"
    \/ /\ Tag(S, el) = "input"
       /\ InputType(S, el) \notin buttonLikeInputs \cup checkableInputs

(* el.value: the text of the page's text control; "" for a select, which    *)
(* has no option in the pages; the value attribute, "on" without one, for   *)
(* a checkbox or radio button; the value attribute, "" without one, for     *)
(* any other control.                                                       *)
ControlValue(S, el) ==
    IF Tag(S, el) = "select" THEN ""
    ELSE IF Tag(S, el) = "input" /\ InputType(S, el) \in checkableInputs
    THEN Coalesce(getAttribute(S, el, "value"), "on")
    ELSE IF el = inp /\ IsTextControl(S, el) THEN S.value
    ELSE Coalesce(getAttribute(S, el, "value"), "")

(* new FormData(form): the named controls of the form that are in its entry *)
(* list, in tree order: no button, no checkbox or radio button that is not  *)
(* checked, no select without a selected option.                            *)
Submittable(S, n) ==
    /\ Tag(S, n) \in {"input", "textarea"}
    /\ InputType(S, n) \notin buttonLikeInputs
    /\ InputType(S, n) \in checkableInputs => getAttribute(S, n, "checked") # Null
    /\ ControlName(S, n) # ""

EntriesOf(S, ctl) ==
    [i \in DOMAIN ctl |-> <<ControlName(S, ctl[i]), ControlValue(S, ctl[i])>>]

FormData(S, form) ==
    EntriesOf(S, SelectSeq(Descendants(S.kids, form), LAMBDA n : Submittable(S, n)))

appendFormData(basket, eggs) == basket \o eggs

\* new FormData(form) for the form found, nothing when there is none.
FormEntries(S, form) == IF form # NoNode THEN FormData(S, form) ELSE <<>>

getData(S, el) ==
    appendFormData(
        appendFormData(<<>>, FormEntries(S, getAssociatedForm(S, el))),
        IF Tag(S, el) = "form" THEN FormData(S, el) ELSE <<>>)
    \o (IF isFormControl(S, el)
        THEN << <<ControlName(S, el), ControlValue(S, el)>> >>
        ELSE <<>>)

httpMethodsWithoutBody == {"GET", "DELETE"}

\* Object.fromEntries keeping the first value of a key.
FirstValue(data, key) ==
    data[CHOOSE i \in DOMAIN data :
            /\ data[i][1] = key
            /\ \A j \in DOMAIN data : data[j][1] = key => j >= i][2]

\* Object.fromEntries: one value per key, the last one; keys in first-seen order.
LastValue(data, key) ==
    data[CHOOSE i \in DOMAIN data :
            /\ data[i][1] = key
            /\ \A j \in DOMAIN data : data[j][1] = key => j <= i][2]

KeysOf(data, first) ==
    [i \in DOMAIN first |-> <<data[first[i]][1], LastValue(data, data[first[i]][1])>>]

fromEntries(data) ==
    KeysOf(data, SelectSeq([i \in DOMAIN data |-> i],
                     LAMBDA i : \A j \in 1..(i - 1) : data[j][1] # data[i][1]))

\* A JSON string literal: quotes and backslashes are escaped.
RECURSIVE Escaped(_)
Escaped(str) ==
    IF str = "" THEN ""
    ELSE IF SubSeq(str, 1, 1) \in {"\"", "\\"}
    THEN "\\" \o SubSeq(str, 1, 1) \o Escaped(slice(str, 1))
    ELSE SubSeq(str, 1, 1) \o Escaped(slice(str, 1))

Quoted(str) == "\"" \o Escaped(str) \o "\""

RECURSIVE Members(_)
\* The members of a JSON object, separated by commas.
Members(obj) ==
    IF obj = <<>> THEN ""
    ELSE Quoted(Head(obj)[1]) \o ":" \o Quoted(Head(obj)[2])
             \o (IF Len(obj) > 1 THEN "," ELSE "") \o Members(Tail(obj))

\* JSON.stringify of an object whose values are strings.
stringify(obj) == "{" \o Members(obj) \o "}"

RECURSIVE ReadString(_, _, _)
\* The JSON string literal whose text starts at position i of str, after its
\* opening quote: the string it denotes and the position after its closing quote.
ReadString(str, i, acc) ==
    IF SubSeq(str, i, i) = "\"" THEN [s |-> acc, at |-> i + 1]
    ELSE IF SubSeq(str, i, i) = "\\"
    THEN ReadString(str, i + 2, acc \o SubSeq(str, i + 1, i + 1))
    ELSE ReadString(str, i + 1, acc \o SubSeq(str, i, i))

RECURSIVE ReadMembers(_, _, _)
\* The members of the JSON object text str from position i on.
ReadMembers(str, i, acc) ==
    IF i > Len(str) \/ SubSeq(str, i, i) = "}" THEN acc
    ELSE IF SubSeq(str, i, i) = "," THEN ReadMembers(str, i + 1, acc)
    ELSE ReadMembers(str,
             ReadString(str, ReadString(str, i + 1, "").at + 2, "").at,
             Append(acc,
                 <<ReadString(str, i + 1, "").s,
                   ReadString(str, ReadString(str, i + 1, "").at + 2, "").s>>))

\* JSON.parse of the text of an object whose values are strings.
parse(str) == ReadMembers(str, 2, <<>>)

\* No encoder registered: the Map before the module's addEnctype calls.
NoEncoders == [t \in {} |-> Null]

\* encoders.set(enctype, encoder)
addEnctype(registry, enctype, encoder) ==
    [t \in DOMAIN registry \cup {enctype} |->
        IF t = enctype THEN encoder ELSE registry[t]]

\* The registry `encoders` after the three addEnctype calls of the module.
ModuleEncoders ==
    addEnctype(
        addEnctype(
            addEnctype(NoEncoders, "text/x-www-form-urlencoded", "URLSearchParams"),
            "multipart/form-data", "FormData"),
        "application/json", "JSON")

(* encoder(data): the three encoders of the module give a URLSearchParams   *)
(* of the entries, the FormData itself, and the JSON text of                *)
(* Object.fromEntries(data); an encoder the page registered gives a body of *)
(* its own kind.                                                            *)
ApplyEncoder(encoder, data) ==
    IF encoder = "JSON"
    THEN [kind |-> "JSON", entries |-> <<>>, text |-> stringify(fromEntries(data))]
    ELSE [kind |-> encoder, entries |-> data, text |-> ""]

\* console.error('Element', element, 'has unsupported enctype', enctype)
Diagnosed(r, element, enctype) ==
    [r EXCEPT !.errors = << <<element, enctype>> >> \o @]

\* encodeData returning an empty body when no encoder is registered.
encodeDataOrNothing(S, element, data, enctype) ==
    IF enctype \notin DOMAIN S.encoders
    THEN [rv |-> [kind |-> Null, entries |-> <<>>, text |-> ""], errors |-> <<>>]
    ELSE [rv |-> ApplyEncoder(S.encoders[enctype], data), errors |-> <<>>]

RECURSIVE encodeData(_, _, _, _)
\* The body, and what was written to the console on the way.
encodeData(S, element, data, enctype) ==
    IF enctype \notin DOMAIN S.encoders
    THEN Diagnosed(encodeData(S, element, data, "text/x-www-form-urlencoded"),
             element, enctype)
    ELSE [rv |-> ApplyEncoder(S.encoders[enctype], data), errors |-> <<>>]

NoBody == [kind |-> Null, entries |-> <<>>, text |-> ""]

\* The body and URL of a request that encodes the data.
WithBody(encoded, href) ==
    [body |-> encoded.rv, url |-> href, errors |-> encoded.errors]

\* The URL of a request without a body: the data joins the query.
WithQuery(data, href) ==
    [body |-> NoBody, url |-> [href EXCEPT !.search = href.search \o data],
     errors |-> <<>>]

\* prepareRequestContent sending a body for every method but GET.
prepareRequestContentGetOnly(S, method, href, enctype, element) ==
    IF method = "GET"
    THEN WithQuery(getData(S, element), href)
    ELSE WithBody(encodeData(S, element, getData(S, element), enctype), href)

prepareRequestContent(S, method, href, enctype, element) ==
    IF method \in httpMethodsWithoutBody
    THEN WithQuery(getData(S, element), href)
    ELSE WithBody(encodeData(S, element, getData(S, element), enctype), href)

\* ------------------------------------------------------------------ events

\* The `options = {}` every caller of dispatch and dispatchExtendable passes.
NoOptions == [x \in {} |-> FALSE]

(* new CustomEvent(type, { detail, ...options }): EventInit's members        *)
(* default to false, so the event is cancelable only if options says so.    *)
CustomEvent(type, detail, options) ==
    [type |-> type,
     detail |-> detail,
     bubbles |-> IF "bubbles" \in DOMAIN options THEN options.bubbles ELSE FALSE,
     cancelable |-> IF "cancelable" \in DOMAIN options THEN options.cancelable ELSE FALSE,
     defaultPrevented |-> FALSE]

\* An event of the user agent: a click and a submit can be canceled, a change
\* cannot.
NativeEvent(type) ==
    [type |-> type,
     detail |-> Null,
     bubbles |-> TRUE,
     cancelable |-> type \in {"click", "submit"},
     defaultPrevented |-> FALSE]

\* context.event before any event is stored.
NoEvent ==
    [type |-> Null, detail |-> Null, bubbles |-> FALSE, cancelable |-> FALSE,
     defaultPrevented |-> FALSE]

\* event.preventDefault(): sets the canceled flag of a cancelable event only.
preventDefault(event) == [event EXCEPT !.defaultPrevented = event.cancelable]

\* Whether the page's listener for this event, on this node, calls preventDefault.
ListenerPrevents(p, type, el) ==
    \/ type = "whet:will-fetch" /\ p.wf = "prevent"
    \/ /\ p.sw.type = type
       /\ p.sw.on \in {NoNode, el}

\* The event once the page's listeners have run on it.
Listened(event, pd) == IF pd THEN preventDefault(event) ELSE event

\* One entry of an exchange's history.
Step(type, el, detail, pd) == [t |-> type, on |-> el, detail |-> detail, pd |-> pd]

Logged(S, e, type, el, detail, pd) ==
    [S EXCEPT !.ex[e].log = Append(@, Step(type, el, detail, pd))]

\* The inline listeners of el bound to the event observe it.
HearInline(S, el, type) ==
    [S EXCEPT !.inst[el].heard = @ \cup ({type} \cap S.inst[el].inline)]

(* el.dispatchEvent(event): every listener el has for the type runs, the     *)
(* inline ones included; false only when a cancelable event was canceled.   *)
dispatchEvent(S, e, el, event, pd) ==
    [S |-> HearInline(Logged(S, e, event.type, el, event.detail, pd), el, event.type),
     rv |-> ~Listened(event, pd).defaultPrevented]

dispatch(S, e, el, type, detail) ==
    dispatchEvent(S, e, el, CustomEvent(type, detail, NoOptions),
        ListenerPrevents(S.page, type, el))

\* The promises the page's will-fetch listener gives to event.waitUntil.
Registered(wf) ==
    CASE wf \in {"wait", "late"} -> <<"pending">>
      [] wf = "never" -> <<"never">>
      [] OTHER -> <<>>

\* The page's will-fetch listener runs: it may call preventDefault, register
\* promises with waitUntil, or change the form.
WillFetchListener(S, e, event, wf) ==
    [S EXCEPT !.ex[e].promises = Registered(wf),
              !.ex[e].late = (wf = "late"),
              !.ex[e].defaultPrevented = event.defaultPrevented,
              !.value = IF wf = "mutate" THEN "2" ELSE @]

dispatchExtendable(S, e, el, type, detail) ==
    WillFetchListener(
        HearInline(Logged(S, e, type, el, detail, ListenerPrevents(S.page, type, el)),
            el, type),
        e,
        Listened(CustomEvent(type, detail, NoOptions),
            ListenerPrevents(S.page, type, el)),
        S.page.wf)

\* ------------------------------------------------------------------ exchanges

\* context.response before the response has arrived.
NoResponse == [status |-> Null, body |-> Null]

NoExchange ==
    [pc |-> "none", element |-> NoNode, event |-> NoEvent, target |-> NoNode,
     swap |-> Null, data |-> <<>>, method |-> Null, href |-> url(""),
     enctype |-> Null, response |-> NoResponse, responseText |-> Null,
     content |-> Null, promises |-> <<>>, awaited |-> {}, late |-> FALSE,
     defaultPrevented |-> FALSE, requests |-> <<>>, console |-> <<>>,
     live |-> {},
     log |-> <<>>]

createExchange(S, el, ev) ==
    [NoExchange EXCEPT
        !.href = getHref(S, el),
        !.method = getHttpMethod(S, el),
        !.enctype = getEnctype(S, el),
        !.data = getData(S, el),
        !.target = getTarget(S, el),
        !.swap = getSwapStyle(S, el),
        !.event = ev,
        !.element = el]

\* What a function without a return statement returns.
Undefined == "undefined"

(* new Function('args', `with(args){${args.href.pathname}}`).call(...): the *)
(* path is the body of the function, so its value is undefined unless the   *)
(* script returns one; of the scripts that do, the model knows              *)
(* `return element.localName`.                                              *)
runJSUri(S, args) ==
    IF args.href.pathname = "return element.localName" THEN Tag(S, args.element)
    ELSE Undefined

\* event.waited(): Promise.all over the promises registered so far.
waited(S, e) ==
    [S EXCEPT !.ex[e].pc = "waiting", !.ex[e].awaited = DOMAIN S.ex[e].promises]

\* doFetch up to `await event.waited()`.
doFetch(S, e, el) ==
    waited(dispatchExtendable(S, e, el, "whet:will-fetch", "context"), e)

\* actuate once the descriptor exists, up to its await.
Actuated(S, e, el, context) ==
    IF context.href.protocol = "javascript"
    THEN [S EXCEPT !.ex[e].pc = "gotText", !.ex[e].content = runJSUri(S, context)]
    ELSE doFetch(S, e, el)

\* actuate with the result of createExchange, which may have thrown.
Created(S, e, el, context) ==
    IF context.swap = TypeError
    THEN [S EXCEPT !.nextEx = e + 1,
                   !.ex[e] = [NoExchange EXCEPT !.pc = "threw", !.element = el]]
    ELSE Actuated(
             dispatch([S EXCEPT !.nextEx = e + 1, !.ex[e] = context],
                 e, el, "actuated", "context").S,
             e, el, context)

(* actuate(el, ev) up to its first await: the descriptor is created (or     *)
(* getSwapStyle throws and the call ends there), `actuated` is dispatched,  *)
(* and doFetch dispatches whet:will-fetch and calls event.waited().         *)
actuate(S, el, ev) ==
    IF S.nextEx > MaxExchanges THEN [S EXCEPT !.full = TRUE]
    ELSE Created(S, S.nextEx, el, createExchange(S, el, ev))

RECURSIVE FireListeners(_, _, _, _)
\* The n trigger listeners bound on el run, one after the other:
\* (ev) => { ev.preventDefault(); actuate(el, ev) }
FireListeners(S, el, ev, n) ==
    IF n = 0 THEN S
    ELSE FireListeners(actuate(S, el, preventDefault(ev)), el, ev, n - 1)

\* Whether a trigger listener of node n is bound to events of this type.
ListensTo(S, n, type) == S.inst[n].bound > 0 /\ S.inst[n].event = type

(* An event of the user reaches node n: the trigger listeners n has for it  *)
(* run, then the inline ones.                                               *)
Delivered(S, n, ev) ==
    HearInline(
        IF ListensTo(S, n, ev.type) THEN FireListeners(S, n, ev, S.inst[n].bound) ELSE S,
        n, ev.type)

RECURSIVE Ancestors(_, _)
\* The nodes above n, innermost first: the rest of the path of an event on n.
Ancestors(k, n) ==
    IF Parent(k, n) = NoNode THEN <<>>
    ELSE <<Parent(k, n)>> \o Ancestors(k, Parent(k, n))

RECURSIVE Onward(_, _, _)
\* The path from its first node that has a listener for the event.
Onward(S, path, type) ==
    IF path = <<>> THEN <<>>
    ELSE IF ListensTo(S, Head(path), type) THEN path
    ELSE Onward(S, Tail(path), type)

RECURSIVE ListenersOn(_, _, _)
\* The number of trigger listeners an event of this type runs along the path.
ListenersOn(S, path, type) ==
    IF path = <<>> THEN 0
    ELSE (IF ListensTo(S, Head(path), type) THEN S.inst[Head(path)].bound ELSE 0)
         + ListenersOn(S, Tail(path), type)

\* No event of the user is being delivered.
NoBubbling == [type |-> Null, path |-> <<>>]

\* The event once it has left a node, with the path still before it.
Propagating(S, path, type) ==
    IF Onward(S, path, type) = <<>> THEN NoBubbling
    ELSE [type |-> type, path |-> Onward(S, path, type)]

\* ------------------------------------------------------------------ install

builtinEventAttributes == {"onclick", "onchange", "onsubmit", "oninput", "onload"}

\* name.startsWith('on')
StartsWithOn(name) == startsWith(name, "on")

\* if (/^:/.test(event)) event = 'whet' + event
Namespaced(event) == IF startsWith(event, ":") THEN "whet" \o event ELSE event

\* if (/^[-:]/.test(event)) event = event.slice(1)
Unseparated(event) ==
    IF startsWith(event, "-") \/ startsWith(event, ":") THEN slice(event, 1) ELSE event

\* The event an inline listener attribute names.
InlineEvent(name) == Namespaced(Unseparated(slice(name, 2)))

RECURSIVE installCustomEventAttributes(_)
\* The events bound from the attribute list: the loop returns at the first
\* attribute that does not start with "on" or is a builtin handler.
installCustomEventAttributes(attributes) ==
    IF attributes = <<>> THEN {}
    ELSE IF ~StartsWithOn(Head(attributes)[1]) THEN {}
    ELSE IF Head(attributes)[1] \in builtinEventAttributes THEN {}
    ELSE {InlineEvent(Head(attributes)[1])}
             \cup installCustomEventAttributes(Tail(attributes))

\* What installation has done to an element: the trigger listeners bound and
\* their event, the events of its inline listeners and those they have
\* observed, the lifecycle events dispatched on it, and the steps in order.
NoInst ==
    [bound |-> 0, event |-> Null, inline |-> {}, heard |-> {},
     willInstall |-> 0, init |-> 0, order |-> <<>>]

RECURSIVE install(_, _)
RECURSIVE installEls(_, _)
RECURSIVE installEl(_, _)

\* The page's listener of a lifecycle event of installation runs: it may
\* call install() itself.
InstallListener(S, type) == IF S.page.il = type THEN install(S, Document) ELSE S

\* installed.add(el)
Marked(S, el) ==
    [S EXCEPT !.installed = @ \cup {el}, !.inst[el].order = Append(@, "add")]

\* The listeners el has for a lifecycle event of installation run when it is
\* dispatched: the trigger listeners bound to it, then the inline ones.
FireOn(S, el, type) ==
    HearInline(
        IF S.inst[el].event = type
        THEN FireListeners(S, el, CustomEvent(type, Null, NoOptions), S.inst[el].bound)
        ELSE S,
        el, type)

\* dispatch(el, 'whet:will-install')
DispatchWillInstall(S, el) ==
    InstallListener(
        FireOn([S EXCEPT !.inst[el].willInstall = @ + 1,
                         !.inst[el].order = Append(@, "whet:will-install")],
            el, "whet:will-install"),
        "whet:will-install")

\* el.addEventListener(getEvent(el), ...)
installHypermediaControls(S, el) ==
    [S EXCEPT !.inst[el].bound = @ + 1, !.inst[el].event = getEvent(S, el),
              !.inst[el].order = Append(@, "bind")]

BindInline(S, el) ==
    [S EXCEPT !.inst[el].inline = installCustomEventAttributes(Attributes(S, el)),
              !.inst[el].order = Append(@, "inline")]

\* dispatch(el, 'whet:init')
DispatchInit(S, el) ==
    InstallListener(
        FireOn([S EXCEPT !.inst[el].init = @ + 1,
                         !.inst[el].order = Append(@, "whet:init")],
            el, "whet:init"),
        "whet:init")

\* The body of install's forEach with the trigger listener bound before
\* whet:will-install is dispatched.
installElBindFirst(S, el) ==
    IF el \in S.installed THEN S
    ELSE DispatchInit(
             BindInline(
                 DispatchWillInstall(
                     installHypermediaControls(Marked(S, el), el), el), el), el)

\* The body of install's forEach, skipping only an element installed twice.
installElTwice(S, el) ==
    IF S.inst[el].willInstall >= 2 THEN S
    ELSE DispatchInit(
             BindInline(
                 installHypermediaControls(
                     DispatchWillInstall(Marked(S, el), el), el), el), el)

\* The body of install's forEach, for one element.
installEl(S, el) ==
    IF el \in S.installed THEN S
    ELSE DispatchInit(
             BindInline(
                 installHypermediaControls(
                     DispatchWillInstall(Marked(S, el), el), el), el), el)

installEls(S, els) ==
    IF els = <<>> THEN S ELSE installEls(installEl(S, Head(els)), Tail(els))

\* if (root instanceof Element && root.matches(selector)) els.push(root)
WithRoot(S, r, selector, found) ==
    IF Matches(S, r, selector) THEN Append(found, r) ELSE found

install(S, r) ==
    installEls(S, WithRoot(S, r, "[whet], [data-whet]",
                      querySelectorAll(S, "[whet], [data-whet]", r)))

\* ------------------------------------------------------------------ swap

RECURSIVE installNodes(_, _)
\* for (const node of myEggs) if (node instanceof Element) install(node)
installNodes(S, nodes) ==
    IF nodes = <<>> THEN S
    ELSE installNodes(
             IF IsElement(S, Head(nodes)) THEN install(S, Head(nodes)) ELSE S,
             Tail(nodes))

\* target[style](...myEggs)
Mutated(S, e, style, target, myEggs) ==
    Logged([S EXCEPT !.kids = Mutate(@, style, target, myEggs)],
        e, "mutate", target, style, FALSE)

\* insert's last two dispatches in the other order.
DidSwapReversed(S, e, target) ==
    dispatch(dispatch(S, e, target, "whet:was-swapped-away", "context").S,
        e, S.ex[e].element, "whet:did-swap", "context").S

\* The two events after the mutation.
DidSwap(S, e, target) ==
    dispatch(dispatch(S, e, S.ex[e].element, "whet:did-swap", "context").S,
        e, target, "whet:was-swapped-away", "context").S

\* What a listener of whet:did-swap finds: the elements that are installed
\* and have their trigger listener.
Observed(S, e) ==
    [S EXCEPT !.ex[e].live = {n \in S.installed : S.inst[n].bound > 0}]

\* insert installing the new nodes after its last two events.
ProceedInstallLast(d, e, content, style, target) ==
    IF ~d.rv THEN d.S
    ELSE installNodes(
             DidSwap(Observed(Mutated(d.S, e, style, target, content), e), e, target),
             content)

\* insert after whet:will-be-swapped, whose result is d.
Proceed(d, e, content, style, target) ==
    IF ~d.rv THEN d.S
    ELSE DidSwap(
             Observed(installNodes(Mutated(d.S, e, style, target, content), content), e),
             e, target)

\* insert after whet:will-swap, whose result is d: `&&` dispatches
\* whet:will-be-swapped only if the first dispatch returned true.
WillBeSwapped(d, e, content, style, target) ==
    IF ~d.rv THEN d.S
    ELSE Proceed(dispatch(d.S, e, target, "whet:will-be-swapped", "context"),
             e, content, style, target)

\* insert dispatching whet:will-swap for the first swap of an exchange only.
insertAnnouncedOnce(S, e, content, style, target) ==
    IF target = NoNode THEN S
    ELSE WillBeSwapped(
             IF \E i \in DOMAIN S.ex[e].log : S.ex[e].log[i].t = "whet:will-swap"
             THEN [S |-> S, rv |-> TRUE]
             ELSE dispatch(S, e, S.ex[e].element, "whet:will-swap", "context"),
             e, content, style, target)

insert(S, e, content, style, target) ==
    IF target = NoNode THEN S
    ELSE WillBeSwapped(dispatch(S, e, S.ex[e].element, "whet:will-swap", "context"),
             e, content, style, target)

RECURSIVE doElsewhereSwapsUntilMiss(_, _, _)
\* doElsewhereSwaps giving up at the first template whose target is missing.
doElsewhereSwapsUntilMiss(S, e, templates) ==
    IF templates = <<>> THEN S
    ELSE IF getSwapStyle(S, Head(templates)) = TypeError
    THEN [S EXCEPT !.thrown = TRUE]
    ELSE IF getTarget(S, Head(templates)) = NoNode THEN S
    ELSE doElsewhereSwapsUntilMiss(
             insert(S, e, S.kids[TemplateContent(Head(templates))],
                 getSwapStyle(S, Head(templates)), getTarget(S, Head(templates))),
             e, Tail(templates))

RECURSIVE doElsewhereSwapsSkippingInvalid(_, _, _)
\* doElsewhereSwaps passing over a template whose swap style is invalid.
doElsewhereSwapsSkippingInvalid(S, e, templates) ==
    IF templates = <<>> THEN S
    ELSE IF getSwapStyle(S, Head(templates)) = TypeError
    THEN doElsewhereSwapsSkippingInvalid(S, e, Tail(templates))
    ELSE doElsewhereSwapsSkippingInvalid(
             insert(S, e, S.kids[TemplateContent(Head(templates))],
                 getSwapStyle(S, Head(templates)), getTarget(S, Head(templates))),
             e, Tail(templates))

RECURSIVE doElsewhereSwaps(_, _, _)
\* The forEach over the opt-in templates of the response; an invalid swap
\* style on a template throws out of the loop.
doElsewhereSwaps(S, e, templates) ==
    IF templates = <<>> THEN S
    ELSE IF getSwapStyle(S, Head(templates)) = TypeError
    THEN [S EXCEPT !.thrown = TRUE]
    ELSE doElsewhereSwaps(
             insert(S, e, S.kids[TemplateContent(Head(templates))],
                 getSwapStyle(S, Head(templates)), getTarget(S, Head(templates))),
             e, Tail(templates))

selectorPrefix == "#:~:selector="

\* parseSelectorFragment taking the whole fragment as the selector.
parseSelectorFragmentRaw(hash) == IF hash = "" THEN Null ELSE hash

\* decodeURIComponent, for text whose only escape is a leading %2E (".").
decodeURIComponent(str) ==
    IF startsWith(str, "%2E") THEN "." \o slice(str, 3) ELSE str

\* parseSelectorFragment once the prefix, if any, is sliced off.
DecodedSelector(selector) ==
    IF selector = "" THEN Null ELSE decodeURIComponent(selector)

parseSelectorFragment(hash) ==
    DecodedSelector(
        IF startsWith(hash, selectorPrefix)
        THEN slice(hash, Len(selectorPrefix))
        ELSE hash)

\* The children parseHtml gives node n of the parse of body b by exchange e.
ParsedKids(e, b, n, seq) == [i \in DOMAIN seq |-> RNode(e, seq[i])]

\* parseHtml(String(rawContent)): the fragment and the contents of its templates.
parseHtml(S, e, b) ==
    [S EXCEPT !.kids =
        [n \in DOMAIN @ |->
            IF n = Frag(e) THEN ParsedKids(e, b, n, BodyTop(b))
            ELSE IF n[1] = e /\ n[2] < 0
            THEN ParsedKids(e, b, n, BodyTemplateContent(b, -n[2]))
            ELSE IF n[1] = e
            THEN ParsedKids(e, b, n, BodyChildren(b, n[2]))
            ELSE @[n]]]

\* The nodes the primary swap inserts.
RefinedContent(S, e, selector) ==
    IF selector # Null THEN querySelectorAll(S, selector, Frag(e))
    ELSE S.kids[Frag(e)]

\* swap after doElsewhereSwaps.
Primary(S, e) ==
    IF S.thrown THEN S
    ELSE insert(S, e,
             RefinedContent(S, e, parseSelectorFragment(S.ex[e].href.hash)),
             S.ex[e].swap, S.ex[e].target)

\* swap doing the primary swap before the elsewhere swaps.
ParsedPrimaryFirst(S, e) ==
    doElsewhereSwaps(Primary(S, e), e,
        querySelectorAll(S, "template[whet], template[data-whet]", Frag(e)))

\* swap once the content is parsed.
Parsed(S, e) ==
    Primary(doElsewhereSwaps(S, e,
                querySelectorAll(S, "template[whet], template[data-whet]", Frag(e))),
        e)

\* swap without its test of the content.
swapUnchecked(S, e) ==
    IF S.ex[e].target = NoNode THEN S
    ELSE Parsed(parseHtml(S, e, S.ex[e].content), e)

\* swap that drops the response of an exchange a later one has followed.
swapLatestOnly(S, e) ==
    IF S.nextEx > e + 1 THEN S
    ELSE IF S.ex[e].target = NoNode THEN S
    ELSE IF S.ex[e].content = Null THEN S
    ELSE Parsed(parseHtml(S, e, S.ex[e].content), e)

swap(S, e) ==
    IF S.ex[e].target = NoNode THEN S
    ELSE IF S.ex[e].content = Null THEN S
    ELSE Parsed(parseHtml(S, e, S.ex[e].content), e)

\* ------------------------------------------------------------------ the machine

\* The state the operators above read and rebuild.
Cur ==
    [page |-> page, kids |-> kids, value |-> value, installed |-> installed,
     inst |-> inst, ex |-> ex, nextEx |-> nextEx, encoders |-> encoders,
     full |-> FALSE, thrown |-> FALSE]

\* The step ends in state S (a step that would exceed MaxExchanges is not taken).
Update(S) ==
    /\ ~S.full
    /\ page' = S.page
    /\ kids' = S.kids
    /\ value' = S.value
    /\ installed' = S.installed
    /\ inst' = S.inst
    /\ ex' = S.ex
    /\ nextEx' = S.nextEx
    /\ encoders' = S.encoders

\* A step that delivers no event of the user ends in state S.
Commit(S) ==
    /\ Update(S)
    /\ UNCHANGED bubbling

NoListener == [type |-> "none", on |-> NoNode]

DefaultPage ==
    [target |-> "#out", swap |-> Null, event |-> Null,
     wf |-> "none", sw |-> NoListener, il |-> "none",
     href |-> "/r", method |-> Null, enctype |-> Null, name |-> "q",
     on |-> "none", more |-> <<>>, val |-> "b", inpTag |-> "input",
     inpType |-> Null, optin |-> {}, optev |-> Null, reg |-> {}]

(* The pages: the default one, those that differ from it in one respect,    *)
(* and one whose form is a control too, listening to the clicks that reach  *)
(* it from its button.                                                      *)
Pages ==
    {DefaultPage}
    \cup {[DefaultPage EXCEPT !.target = t] : t \in {Null, ":this", "#missing"}}
    \cup {[DefaultPage EXCEPT !.swap = s] : s \in {"after", "replaceWith", "frobnicate"}}
    \cup {[DefaultPage EXCEPT !.event = v] : v \in {"whet:init", "whet:will-install"}}
    \cup {[DefaultPage EXCEPT !.wf = w] :
            w \in {"prevent", "wait", "never", "late", "mutate"}}
    \cup {[DefaultPage EXCEPT !.sw = l] :
            l \in {[type |-> "whet:will-swap", on |-> NoNode],
                   [type |-> "whet:will-be-swapped", on |-> out]}}
    \cup {[DefaultPage EXCEPT !.il = i] : i \in {"whet:will-install", "whet:init"}}
    \cup {[DefaultPage EXCEPT !.href = h] :
            h \in {"/r#:~:selector=%2Eitem", "/r#results", "/r#:~:selector=",
                   "javascript:'Replaced!'"}}
    \cup {[DefaultPage EXCEPT !.method = m] : m \in {"get", "delete"}}
    \cup {[DefaultPage EXCEPT !.enctype = t] :
            t \in {"application/json", "multipart/form-data", "text/plain"}}
    \cup {[DefaultPage EXCEPT !.name = Null]}
    \cup {[DefaultPage EXCEPT !.on = o] : o \in {"first", "last", "builtin", "install"}}
    \cup {[DefaultPage EXCEPT !.optin = {form1}, !.optev = "click"]}

(* The pages that differ from the default one in the attributes a          *)
(* descriptor is resolved from, in the element that is the control, or in   *)
(* the content types the page's script registers an encoder for.            *)
ControlPages ==
    {[DefaultPage EXCEPT !.more = m] :
        m \in {<< <<"target", "#missing">> >>,
               << <<"formaction", "/a">>, <<"data-src", "/d">> >>,
               << <<"formmethod", "put">>, <<"method", "delete">> >>}}
    \cup {[DefaultPage EXCEPT !.target = Null, !.more = m] :
            m \in {<< <<"target", "#missing">>, <<"formtarget", "#out">> >>,
                   << <<"target", "#out">> >>}}
    \cup {[DefaultPage EXCEPT !.href = Null, !.more = m] :
            m \in {<<>>,
                   << <<"src", "/c">> >>,
                   << <<"src", "/c">>, <<"formsrc", "/b">>, <<"data-src", "/d">> >>,
                   << <<"src", "/c">>, <<"href", "/h">>, <<"formhref", "/g">> >>,
                   << <<"href", "/h">>, <<"action", "/a">> >>,
                   << <<"action", "/a">>, <<"data-action", "/e">> >>}}
    \cup {[DefaultPage EXCEPT !.method = "pUt"]}
    \cup {[DefaultPage EXCEPT !.event = "change"]}
    \cup {[DefaultPage EXCEPT !.optin = {form1}]}
    \cup {[DefaultPage EXCEPT !.optin = {form1}, !.optev = "click"]}
    \cup {[DefaultPage EXCEPT !.optin = {inp}, !.inpTag = t] :
            t \in {"input", "textarea", "select"}}
    \cup {[DefaultPage EXCEPT !.optin = {inp}, !.inpType = t] :
            t \in {"submit", "checkbox"}}
    \cup {[DefaultPage EXCEPT !.name = n] : n \in {Null, "x"}}
    \cup {[DefaultPage EXCEPT !.enctype = t] : t \in {"text/plain", "application/json"}}
    \cup {[DefaultPage EXCEPT !.enctype = t, !.reg = {t}] :
            t \in {"text/plain", "application/json"}}
    \cup {[DefaultPage EXCEPT !.enctype = "application/json", !.name = "x",
                              !.val = "say \"hi\", a\\b"]}

\* The responses the server may give.
Responses ==
    {[status |-> "200", body |-> b] : b \in Bodies}
        \cup {[status |-> "404", body |-> "text"]}

InitialTree ==
    [n \in Nodes |->
        CASE n = Document -> <<html>>
          [] n = html -> <<body>>
          [] n = body -> <<form1, lnk, out>>
          [] n = form1 -> <<inp, btn>>
          [] OTHER -> <<>>]

Init ==
    /\ page \in Pages
    /\ kids = InitialTree
    /\ value = "1"
    /\ installed = {}
    /\ inst = [n \in Nodes |-> NoInst]
    /\ ex = [e \in Exchanges |-> NoExchange]
    /\ nextEx = 1
    /\ encoders = ModuleEncoders
    /\ bubbling = NoBubbling

\* Promise.all taken to resolve as soon as no promise has rejected.
NoneRejected(x) == \A i \in x.awaited : x.promises[i] # "rejected"

AllResolved(x) == \A i \in x.awaited : x.promises[i] = "resolved"

SomeRejected(x) == \E i \in x.awaited : x.promises[i] = "rejected"

(* A continuation whose awaited promise has settled is a microtask: it runs  *)
(* before the next task (user input, network, timers).                      *)
Continues(x) ==
    \/ x.pc \in {"gotText", "caught"}
    \/ x.pc = "waiting" /\ (AllResolved(x) \/ SomeRejected(x))

\* The microtask queue is empty.
Drained == \A e \in Exchanges : ~Continues(ex[e])

\* Nothing is running: the next task may start.
Idle == Drained /\ bubbling = NoBubbling

InitControls ==
    /\ page \in ControlPages
    /\ kids = InitialTree
    /\ value = "1"
    /\ installed = {}
    /\ inst = [n \in Nodes |-> NoInst]
    /\ ex = [e \in Exchanges |-> NoExchange]
    /\ nextEx = 1
    /\ encoders = ModuleEncoders
    /\ bubbling = NoBubbling

\* The page's script calls install(r).
CallInstall(r) ==
    /\ Idle
    /\ Commit(install(Cur, r))

(* The user actuates an installed control of the document: the event is    *)
(* dispatched on it, its listeners run, and the event goes on to bubble     *)
(* through the ancestors of the control (the exchanges its listeners along  *)
(* the path start are within MaxExchanges).                                 *)
Trigger(el) ==
    /\ Idle
    /\ inst[el].bound > 0
    /\ inst[el].event \in {"click", "change", "submit"}
    /\ InDocument(kids, el)
    /\ nextEx + ListenersOn(Cur, <<el>> \o Ancestors(kids, el), inst[el].event)
           <= MaxExchanges + 1
    /\ Update(Delivered(Cur, el, NativeEvent(inst[el].event)))
    /\ bubbling' = Propagating(Delivered(Cur, el, NativeEvent(inst[el].event)),
                       Ancestors(kids, el), inst[el].event)

(* The event of the user reaches the next node of its path that listens to  *)
(* it. The host empties the microtask queue after each listener of such an  *)
(* event, so the exchanges the listeners before have started are past every *)
(* await that was ready by then.                                            *)
Bubble ==
    /\ bubbling # NoBubbling
    /\ Drained
    /\ Update(Delivered(Cur, Head(bubbling.path), NativeEvent(bubbling.type)))
    /\ bubbling' = Propagating(
                       Delivered(Cur, Head(bubbling.path), NativeEvent(bubbling.type)),
                       Tail(bubbling.path), bubbling.type)

\* The encoders a page's script registers.
PageEncoders == {"PageEncoderA", "PageEncoderB"}

\* The page's script registers PageEncoderA for a type, then PageEncoderB, and
\* so on in turn.
NextEncoder(registry, enctype) ==
    IF enctype \in DOMAIN registry /\ registry[enctype] = "PageEncoderA"
    THEN "PageEncoderB"
    ELSE "PageEncoderA"

\* The page's script calls addEnctype(enctype, { encoder }).
AddEnctype(enctype, encoder) ==
    /\ Idle
    /\ enctype \in page.reg
    /\ encoder = NextEncoder(encoders, enctype)
    /\ encoders' = addEnctype(encoders, enctype, encoder)
    /\ UNCHANGED <<page, kids, value, installed, inst, ex, nextEx, bubbling>>

\* The user edits the text input while an exchange awaits the work its
\* will-fetch listeners registered.
Edit(v) ==
    /\ Idle
    /\ value = "1"
    /\ \E e \in Exchanges : ex[e].pc = "waiting"
    /\ value' = v
    /\ UNCHANGED <<page, kids, installed, inst, ex, nextEx, encoders, bubbling>>

(* A promise the dispatcher awaits resolves. Once the exchange has moved on  *)
(* nothing reads the promise again, and the program never observes the      *)
(* settlement of a promise that waited() does not await.                    *)
ResolvePromise(e, i) ==
    /\ Idle
    /\ ex[e].pc = "waiting"
    /\ i \in ex[e].awaited
    /\ ex[e].promises[i] = "pending"
    /\ ex' = [ex EXCEPT ![e].promises[i] = "resolved"]
    /\ UNCHANGED <<page, kids, value, installed, inst, nextEx, encoders, bubbling>>

\* A promise the dispatcher awaits rejects.
RejectPromise(e, i) ==
    /\ Idle
    /\ ex[e].pc = "waiting"
    /\ i \in ex[e].awaited
    /\ ex[e].promises[i] = "pending"
    /\ ex' = [ex EXCEPT ![e].promises[i] = "rejected"]
    /\ UNCHANGED <<page, kids, value, installed, inst, nextEx, encoders, bubbling>>

\* An asynchronous will-fetch listener calls event.waitUntil(p) after the
\* dispatch has returned, while the promises registered before are pending.
LateWaitUntil(e) ==
    /\ Idle
    /\ ex[e].pc = "waiting"
    /\ ex[e].late
    /\ ex' = [ex EXCEPT ![e].promises = Append(@, "pending"), ![e].late = FALSE]
    /\ UNCHANGED <<page, kids, value, installed, inst, nextEx, encoders, bubbling>>

\* fetch with the marker header on the requests that have a body only.
RequestMarkingBodies(x, content) ==
    [url |-> content.url, method |-> x.method, body |-> content.body,
     headers |-> IF content.body = NoBody THEN <<>> ELSE << <<"Whet", "1">> >>]

\* fetch(url, { method, body, headers })
Request(x, content) ==
    [url |-> content.url, method |-> x.method, body |-> content.body,
     headers |-> << <<"Whet", "1">> >>]

\* doFetch from prepareRequestContent to the call of fetch.
Fetching(S, e, content) ==
    Logged([S EXCEPT !.ex[e].pc = "fetching",
                     !.ex[e].console = @ \o content.errors,
                     !.ex[e].requests = Append(@, Request(S.ex[e], content))],
        e, "fetch", S.ex[e].element, "request", FALSE)

(* doFetch after `await event.waited()`: a canceled event ends the exchange  *)
(* (swap(context, null) does nothing); otherwise the request is sent.       *)
Waited(S, e) ==
    IF S.ex[e].defaultPrevented
    THEN [S EXCEPT !.ex[e].pc = "aborted"]
    ELSE Fetching(S, e,
             prepareRequestContent(S, S.ex[e].method, S.ex[e].href,
                 S.ex[e].enctype, S.ex[e].element))

WaitedResolves(e) ==
    /\ ex[e].pc = "waiting"
    /\ AllResolved(ex[e])
    /\ Commit(Waited(Cur, e))

\* The rejection of Promise.all taken to be caught as a failure of fetch() is.
WaitedRejectsCaught(e) ==
    /\ ex[e].pc = "waiting"
    /\ SomeRejected(ex[e])
    /\ Commit(dispatch([Cur EXCEPT !.ex[e].pc = "caught"],
                  e, ex[e].element, "whet:fetch-error", "context+error").S)

\* Promise.all rejects: `await event.waited()` throws out of doFetch and actuate.
WaitedRejects(e) ==
    /\ ex[e].pc = "waiting"
    /\ SomeRejected(ex[e])
    /\ ex' = [ex EXCEPT ![e].pc = "threw"]
    /\ UNCHANGED <<page, kids, value, installed, inst, nextEx, encoders, bubbling>>

\* fetch() taken to reject when the status of the response is an error.
FetchResolvesOkOnly(e, r) ==
    /\ Idle
    /\ ex[e].pc = "fetching"
    /\ ex[e].requests[1].url.protocol = "http:"
    /\ IF r.status = "200"
       THEN Commit(dispatch([Cur EXCEPT !.ex[e].response = r, !.ex[e].pc = "reading"],
                       e, ex[e].element, "whet:did-fetch-headers", "context").S)
       ELSE Commit(dispatch([Cur EXCEPT !.ex[e].response = r, !.ex[e].pc = "caught"],
                       e, ex[e].element, "whet:fetch-error", "context+error").S)

\* fetch() resolves with a response, whatever its status; it rejects for a
\* URL whose scheme it does not support.
FetchResolves(e, r) ==
    /\ Idle
    /\ ex[e].pc = "fetching"
    /\ ex[e].requests[1].url.protocol = "http:"
    /\ Commit(dispatch([Cur EXCEPT !.ex[e].response = r, !.ex[e].pc = "reading"],
                  e, ex[e].element, "whet:did-fetch-headers", "context").S)

(* fetch() or res.text() rejects: the catch block writes the error to the   *)
(* console (an entry of no element), dispatches whet:fetch-error, and       *)
(* doFetch returns null.                                                    *)
FetchRejects(e) ==
    /\ Idle
    /\ ex[e].pc \in {"fetching", "reading"}
    /\ Commit(dispatch([Cur EXCEPT !.ex[e].pc = "caught",
                                    !.ex[e].console = Append(@, <<NoNode, "error">>)],
                  e, ex[e].element, "whet:fetch-error", "context+error").S)

\* res.text() resolves with the body.
BodyRead(e) ==
    /\ Idle
    /\ ex[e].pc = "reading"
    /\ Commit(dispatch(
                  Logged([Cur EXCEPT !.ex[e].responseText = ex[e].response.body,
                                     !.ex[e].content = ex[e].response.body,
                                     !.ex[e].pc = "gotText"],
                      e, "text", ex[e].element, "body", FALSE),
                  e, ex[e].element, "whet:did-fetch", "context").S)

\* The end of actuate, a failed exchange taking its element's listener along.
SwappedUnbinding(S, e) ==
    [S EXCEPT !.ex[e].pc =
                  IF S.thrown THEN "threw" ELSE IF @ = "caught" THEN "failed" ELSE "done",
              !.inst[S.ex[e].element].bound =
                  IF S.thrown \/ S.ex[e].pc = "caught" THEN 0 ELSE @]

\* The end of actuate: swap has returned or thrown.
Swapped(S, e) ==
    [S EXCEPT !.ex[e].pc =
        IF S.thrown THEN "threw" ELSE IF @ = "caught" THEN "failed" ELSE "done"]

\* actuate after its await: swap(context, content), content null after a catch.
Swap(e) ==
    /\ ex[e].pc \in {"gotText", "caught"}
    /\ Commit(Swapped(swap(Cur, e), e))

Next ==
    \/ \E r \in {Document, form1} : CallInstall(r)
    \/ \E el \in Nodes : Trigger(el)
    \/ Bubble
    \/ \E v \in {"2"} : Edit(v)
    \/ \E e \in Exchanges, i \in 1..2 : ResolvePromise(e, i)
    \/ \E e \in Exchanges, i \in 1..2 : RejectPromise(e, i)
    \/ \E e \in Exchanges : LateWaitUntil(e)
    \/ \E e \in Exchanges : WaitedResolves(e)
    \/ \E e \in Exchanges : WaitedRejects(e)
    \/ \E e \in Exchanges, r \in Responses : FetchResolves(e, r)
    \/ \E e \in Exchanges : FetchRejects(e)
    \/ \E e \in Exchanges : BodyRead(e)
    \/ \E e \in Exchanges : Swap(e)

Spec == Init /\ [][Next]_vars

\* The steps of the pages of ControlPages: no listener of theirs defers or
\* cancels, and the server answers with text.
NextControls ==
    \/ \E r \in {Document} : CallInstall(r)
    \/ \E el \in PageNodes : Trigger(el)
    \/ Bubble
    \/ \E t \in {"text/plain", "application/json"}, c \in PageEncoders :
           AddEnctype(t, c)
    \/ \E e \in Exchanges : WaitedResolves(e)
    \/ \E e \in Exchanges : FetchResolves(e, [status |-> "200", body |-> "text"])
    \/ \E e \in Exchanges : FetchRejects(e)
    \/ \E e \in Exchanges : BodyRead(e)
    \/ \E e \in Exchanges : Swap(e)

SpecControls == InitControls /\ [][NextControls]_vars

(* The pages whose button differs in its target or its swap style, and the  *)
(* one whose form listens to clicks, for the responses that hold elsewhere  *)
(* directives.                                                              *)
ResponsePages ==
    {DefaultPage}
    \cup {[DefaultPage EXCEPT !.target = t] : t \in {Null, ":this"}}
    \cup {[DefaultPage EXCEPT !.swap = "after"]}
    \cup {[DefaultPage EXCEPT !.optin = {form1}, !.optev = "click"]}

\* The responses with several elsewhere directives, and with an error status.
ElsewhereResponses ==
    {[status |-> "200", body |-> b] :
        b \in {"text", "tpl", "two", "both", "mixed", "bare"}}
    \cup {[status |-> c, body |-> b] : c \in {"404", "500"}, b \in {"text", "both"}}

InitResponses ==
    /\ page \in ResponsePages
    /\ kids = InitialTree
    /\ value = "1"
    /\ installed = {}
    /\ inst = [n \in Nodes |-> NoInst]
    /\ ex = [e \in Exchanges |-> NoExchange]
    /\ nextEx = 1
    /\ encoders = ModuleEncoders
    /\ bubbling = NoBubbling

\* The steps of the pages of ResponsePages: no listener of theirs defers or
\* cancels, and the server answers with one of ElsewhereResponses.
NextResponses ==
    \/ \E r \in {Document} : CallInstall(r)
    \/ \E el \in PageNodes : Trigger(el)
    \/ Bubble
    \/ \E e \in Exchanges : WaitedResolves(e)
    \/ \E e \in Exchanges, r \in ElsewhereResponses : FetchResolves(e, r)
    \/ \E e \in Exchanges : FetchRejects(e)
    \/ \E e \in Exchanges : BodyRead(e)
    \/ \E e \in Exchanges : Swap(e)

SpecResponses == InitResponses /\ [][NextResponses]_vars

\* ------------------------------------------------------------------ properties

\* The steps of an exchange's history, as <<step, node>> pairs.
Trace(log) == [i \in DOMAIN log |-> <<log[i].t, log[i].on>>]

\* No listener called preventDefault on an event of the exchange.
Uncanceled(x) == \A i \in DOMAIN x.log : ~x.log[i].pd

\* The steps of doFetch, in order, on the trigger element.
FetchSteps(el) ==
    << <<"actuated", el>>, <<"whet:will-fetch", el>>, <<"fetch", el>>,
       <<"whet:did-fetch-headers", el>>, <<"text", el>>, <<"whet:did-fetch", el>> >>

\* The steps of one insert, in order, on the trigger element and the target.
SwapSteps(el, target) ==
    << <<"whet:will-swap", el>>, <<"whet:will-be-swapped", target>>,
       <<"mutate", target>>, <<"whet:did-swap", el>>,
       <<"whet:was-swapped-away", target>> >>

\* The number of steps of FetchSteps and of SwapSteps.
FetchLen == Len(FetchSteps(NoNode))

SwapLen == Len(SwapSteps(NoNode, NoNode))

\* The j-th run of SwapLen steps after the steps of doFetch.
SwapRun(tr, j) ==
    SubSeq(tr, FetchLen + SwapLen * (j - 1) + 1, FetchLen + SwapLen * j)

\* The number of inserts an exchange's history holds after the steps of doFetch.
SwapRuns(x) == (Len(x.log) - FetchLen) \div SwapLen

\* The opt-in templates of a response body.
Directives(b) ==
    {i \in Range(BodyTop(b)) : BodyTag(b, i) = "template" /\ BodyAttrs(b, i) # <<>>}

\* Body b holds an elsewhere directive whose swap style is invalid.
Throwing(b) ==
    \E i \in Directives(b) : <<"data-swap", "frobnicate">> \in Range(BodyAttrs(b, i))

\* The steps exchange e adds to its history in this step.
NewSteps(e) ==
    SubSeq(Trace(ex'[e].log), Len(ex[e].log) + 1, Len(ex'[e].log))

\* The targets the opt-in templates of body b name, in document order, none
\* for a selector no element has.
DirectiveTargets(b) ==
    CASE b = "tpl" -> <<out>>
      [] b = "two" -> <<NoNode, out>>
      [] b = "both" -> <<out, form1>>
      [] b = "bare" -> <<body>>
      [] OTHER -> <<>>

RECURSIVE DirectiveSteps(_, _)
\* The steps of the elsewhere swaps into those of `targets` the document has.
DirectiveSteps(el, targets) ==
    IF targets = <<>> THEN <<>>
    ELSE (IF Head(targets) # NoNode /\ InDocument(kids, Head(targets))
          THEN SwapSteps(el, Head(targets))
          ELSE <<>>)
         \o DirectiveSteps(el, Tail(targets))

\* The targets of the opt-in templates of body b that come before its
\* template with an invalid swap style.
EarlierTargets(b) == IF b = "mixed" THEN <<out>> ELSE <<>>

\* The swap of exchange e, whose request and body read succeeded and none of
\* whose events was canceled, ends in this step.
Succeeds(e) ==
    /\ ex[e].pc = "gotText"
    /\ ex'[e].pc # "gotText"
    /\ ex[e].responseText # Null
    /\ Uncanceled(ex'[e])

\* The steps `steps` are the first of the steps `all`, in their order.
IsPrefix(steps, all) ==
    /\ Len(steps) <= Len(all)
    /\ steps = SubSeq(all, 1, Len(steps))

(* C1, as the specification states it: every exchange that is not canceled  *)
(* and whose request and body read succeed goes through the eleven steps    *)
(* exactly once each, in order. Refuted by a response with an elsewhere     *)
(* directive (its swap steps come before those of the primary swap) and by  *)
(* a trigger whose target selector matches nothing (no primary swap).       *)
C1_Original ==
    \A e \in Exchanges :
        ex[e].pc = "done" /\ Uncanceled(ex[e]) =>
            Trace(ex[e].log) =
                FetchSteps(ex[e].element) \o SwapSteps(ex[e].element, ex[e].target)

(* C1, amended: an exchange that is not canceled and whose request and body *)
(* read succeed goes once, in order, through actuated, whet:will-fetch, the *)
(* request, whet:did-fetch-headers, the body read and whet:did-fetch, and   *)
(* then swaps. When its target resolves and every elsewhere directive of    *)
(* the response has a valid swap style, the five swap steps (whet:will-swap *)
(* on the trigger, whet:will-be-swapped on the swap's target, the mutation, *)
(* whet:did-swap, whet:was-swapped-away) follow once per elsewhere          *)
(* directive whose target resolves, and then once more for the primary      *)
(* swap into the exchange's target, and the exchange is done. When a        *)
(* directive has an invalid swap style, the swap steps follow for the       *)
(* resolving directives before it only, and the exchange ends by the error  *)
(* without its primary swap. When the exchange's target is none no primary  *)
(* swap follows: whatever steps follow are those of elsewhere directives.   *)
C1_Lifecycle ==
    [][\A e \in Exchanges :
          Succeeds(e) =>
              /\ Trace(ex[e].log) = FetchSteps(ex[e].element)
              /\ ex[e].target # NoNode /\ ~Throwing(ex[e].content) =>
                     /\ ex'[e].pc = "done"
                     /\ NewSteps(e) =
                            DirectiveSteps(ex[e].element,
                                DirectiveTargets(ex[e].content))
                                \o SwapSteps(ex[e].element, ex[e].target)
              /\ ex[e].target # NoNode /\ Throwing(ex[e].content) =>
                     /\ ex'[e].pc = "threw"
                     /\ NewSteps(e) =
                            DirectiveSteps(ex[e].element,
                                EarlierTargets(ex[e].content))
              /\ ex[e].target = NoNode =>
                     IsPrefix(NewSteps(e),
                         DirectiveSteps(ex[e].element,
                             DirectiveTargets(ex[e].content)))]_vars

\* C1 witness: an exchange done after an elsewhere swap and the primary swap.
C1_Witness ==
    \E e \in Exchanges :
        /\ ex[e].pc = "done"
        /\ Uncanceled(ex[e])
        /\ ex[e].content = "tpl"
        /\ SwapRuns(ex[e]) = 2

\* The exchange's history holds a step of these types.
Has(x, types) == \E i \in DOMAIN x.log : x.log[i].t \in types

\* A whet:will-fetch listener of the exchange called preventDefault.
FetchCanceled(x) ==
    \E i \in DOMAIN x.log : x.log[i].t = "whet:will-fetch" /\ x.log[i].pd

SwapEvents ==
    {"whet:will-swap", "whet:will-be-swapped", "whet:did-swap",
     "whet:was-swapped-away"}

(* C2: an exchange whose whet:will-fetch listener calls preventDefault ends *)
(* aborted: it issues no request, none of whet:did-fetch-headers,           *)
(* whet:did-fetch or whet:fetch-error is dispatched, its content is none    *)
(* and no mutation or swap event occurs.                                    *)
C2_CancelAborts ==
    \A e \in Exchanges :
        FetchCanceled(ex[e]) =>
            /\ ex[e].pc \in {"waiting", "aborted"}
            /\ ex[e].requests = <<>>
            /\ ex[e].content = Null
            /\ ~Has(ex[e], {"fetch", "whet:did-fetch-headers", "whet:did-fetch",
                   "whet:fetch-error", "mutate"} \cup SwapEvents)

(* C3: when a whet:will-fetch listener gives waitUntil, while the event is  *)
(* being dispatched, a promise that never resolves, the exchange issues no  *)
(* request, whet:did-fetch-headers and whet:did-fetch never fire and the    *)
(* exchange mutates nothing, in every state that follows.                   *)
C3_NeverResolves ==
    \A e \in Exchanges :
        (\E i \in DOMAIN ex[e].promises : ex[e].promises[i] = "never") =>
            /\ ex[e].pc = "waiting"
            /\ ex[e].requests = <<>>
            /\ ~Has(ex[e], {"fetch", "whet:did-fetch-headers", "whet:did-fetch",
                   "mutate"})

\* C3 witness: an exchange waits on a promise that never resolves.
C3_Witness ==
    \E e \in Exchanges :
        /\ ex[e].pc = "waiting"
        /\ ex[e].awaited # {}
        /\ \A i \in ex[e].awaited : ex[e].promises[i] = "never"


\* The exchange has gone past `await event.waited()` and read the canceled flag.
Settled(x) ==
    x.pc \in {"fetching", "reading", "gotText", "caught", "done", "failed", "aborted"}

(* C4: every promise a listener registers on whet:will-fetch through        *)
(* waitUntil before the event is settled, whenever it registers it, has     *)
(* resolved by the time the canceled flag is read and the request is        *)
(* issued.                                                                  *)
C4_Original ==
    \A e \in Exchanges :
        Settled(ex[e]) =>
            \A i \in DOMAIN ex[e].promises : ex[e].promises[i] = "resolved"

\* The step after step i of the history, if any, is of one of these types.
NextStepIn(log, i, types) == i < Len(log) /\ log[i + 1].t \in types

(* C5: when a listener of whet:will-swap or of whet:will-be-swapped calls   *)
(* preventDefault, that swap is abandoned: the next step of the exchange,   *)
(* if any, is the whet:will-swap of its next swap, never                    *)
(* whet:will-be-swapped, the mutation, whet:did-swap or                     *)
(* whet:was-swapped-away.                                                   *)
C5_CancelAbandons ==
    \A e \in Exchanges :
        \A i \in DOMAIN ex[e].log :
            ex[e].log[i].pd /\ ex[e].log[i].t \in {"whet:will-swap", "whet:will-be-swapped"}
                => ~NextStepIn(ex[e].log, i,
                        {"whet:will-be-swapped", "mutate", "whet:did-swap",
                         "whet:was-swapped-away"})

\* fetch() rejected: the exchange failed with no response.
TransportFailure(x) == x.pc \in {"caught", "failed"} /\ x.response = NoResponse

\* The number of steps of type t in the history.
Count(log, t) == Cardinality({i \in DOMAIN log : log[i].t = t})

(* C6: when fetch() rejects, whet:fetch-error is dispatched on the trigger  *)
(* element exactly once, with the error in its detail; the exchange ends    *)
(* with content none, no swap event or mutation follows, and the exchange   *)
(* has issued exactly one request.                                          *)
C6_TransportFailure ==
    \A e \in Exchanges :
        TransportFailure(ex[e]) =>
            /\ Count(ex[e].log, "whet:fetch-error") = 1
            /\ ex[e].log[Len(ex[e].log)] =
                   Step("whet:fetch-error", ex[e].element, "context+error", FALSE)
            /\ ex[e].content = Null
            /\ ~Has(ex[e], {"mutate"} \cup SwapEvents)
            /\ Len(ex[e].requests) = 1

\* C6 witness: an exchange failed at the transport level and actuate has returned.
C6_Witness ==
    \E e \in Exchanges : ex[e].pc = "failed" /\ ex[e].response = NoResponse

\* The element's swap attribute is present and names no swap style.
InvalidSwap(el) ==
    /\ attr(Cur, el, "swap") # Null
    /\ attr(Cur, el, "swap") \notin swapStylesSet

(* C7: actuating an element whose swap attribute is not one of the six swap *)
(* styles fails when the descriptor is created: no event is dispatched, no  *)
(* request is issued and the exchange mutates nothing.                      *)
C7_InvalidSwap ==
    \A e \in Exchanges :
        ex[e].pc # "none" /\ InvalidSwap(ex[e].element) =>
            /\ ex[e].pc = "threw"
            /\ ex[e].log = <<>>
            /\ ex[e].requests = <<>>

\* C7 witness: the button with swap="frobnicate" has been actuated.
C7_Witness ==
    \E e \in Exchanges :
        /\ ex[e].pc = "threw"
        /\ ex[e].element = btn
        /\ attr(Cur, btn, "swap") = "frobnicate"

\* The selector install scans for.
OptInSelector == "[whet], [data-whet]"

(* C8: installation is idempotent. After any sequence of install() calls    *)
(* (by the page, by a whet:will-install or whet:init listener during an     *)
(* install, by a swap on the nodes it inserted) every installed element has *)
(* exactly one trigger listener and has received whet:will-install and      *)
(* whet:init exactly once, every other node has none, and every opt-in      *)
(* element a swap put in the document is installed.                         *)
C8_Idempotent ==
    \A n \in Nodes :
        /\ n \in installed =>
               /\ inst[n].bound = 1
               /\ inst[n].willInstall = 1
               /\ inst[n].init = 1
        /\ n \notin installed => inst[n] = NoInst
        /\ n \in ResponseNodes /\ InDocument(kids, n) /\ Matches(Cur, n, OptInSelector)
               => n \in installed

(* C8 witness: on a page whose lifecycle listener re-enters install(), the *)
(* controls of the page are installed and a swap has installed an opt-in    *)
(* element of its response.                                                 *)
C8_Witness ==
    /\ page.il # "none"
    /\ {btn, lnk} \subseteq installed
    /\ \E n \in ResponseNodes : n \in installed /\ InDocument(kids, n)

\* The request the exchange would send from the data of its descriptor.
SnapshotContent(x) ==
    IF x.method \in httpMethodsWithoutBody
    THEN WithQuery(x.data, x.href)
    ELSE WithBody(encodeData(Cur, x.element, x.data, x.enctype), x.href)

(* C9: the request an exchange sends carries the form data collected when   *)
(* the descriptor was created (its data field), whatever the form has       *)
(* become since.                                                            *)
C9_Snapshot ==
    \A e \in Exchanges :
        \A i \in DOMAIN ex[e].requests :
            ex[e].requests[i] = Request(ex[e], SnapshotContent(ex[e]))

\* The nodes a replaceChildren swap of the whole response leaves in its target.
ContentOf(e, x) == [i \in DOMAIN BodyTop(x.content) |-> RNode(e, BodyTop(x.content)[i])]

\* Each exchange past its await has issued its own request, none has been
\* canceled, and each one done with a target has mutated that target.
EachItsOwn ==
    \A e \in Exchanges :
        /\ ex[e].pc # "aborted"
        /\ Settled(ex[e]) => Len(ex[e].requests) = 1
        /\ ex[e].pc = "done" /\ ex[e].target # NoNode =>
               \E i \in DOMAIN ex[e].log :
                   ex[e].log[i].t = "mutate" /\ ex[e].log[i].on = ex[e].target

\* Exchange e swaps its whole response into #out with replaceChildren.
SwapsIntoOut(e) ==
    /\ ex[e].pc = "gotText"
    /\ ex'[e].pc = "done"
    /\ ex[e].target = out
    /\ ex[e].swap = "replaceChildren"
    /\ ex[e].href.hash = ""

(* C10: exchanges that overlap proceed independently. No step changes more  *)
(* than one exchange, none is canceled, each issues its own request and     *)
(* performs its own swap, and when an exchange swaps into a target, in      *)
(* whatever state the other exchange is, the target holds the content of    *)
(* the exchange that swapped: the last to swap wins.                        *)
C10_Independent ==
    [][/\ EachItsOwn'
       /\ \A e, f \in Exchanges : e # f /\ ex'[e] # ex[e] => ex'[f] = ex[f]
       /\ \A e \in Exchanges : SwapsIntoOut(e) => kids'[out] = ContentOf(e, ex'[e])
      ]_vars

(* C10 witness: two exchanges that replace the children of the same target  *)
(* have both completed, and the one actuated first swapped last: the target *)
(* holds its content.                                                       *)
C10_Witness ==
    /\ \A e \in Exchanges : ex[e].pc = "done" /\ ex[e].target = out
    /\ ex[1].swap = "replaceChildren"
    /\ ex[2].swap = "replaceChildren"
    /\ ex[1].element # ex[2].element
    /\ kids[out] = ContentOf(1, ex[1])

\* Exchange e issues a request in this step.
Sends(e) == Len(ex'[e].requests) > Len(ex[e].requests)

\* The request exchange e has just issued.
Sent(e) == ex'[e].requests[Len(ex'[e].requests)]

\* obj holds one entry per name of data, with the value of the last entry of
\* that name.
IsObjectOf(obj, data) ==
    /\ {obj[i][1] : i \in DOMAIN obj} = {data[i][1] : i \in DOMAIN data}
    /\ \A i, j \in DOMAIN obj : obj[i][1] = obj[j][1] => i = j
    /\ \A i \in DOMAIN obj :
           \E k \in DOMAIN data :
               /\ data[k] = obj[i]
               /\ \A m \in DOMAIN data : data[m][1] = obj[i][1] => m <= k

\* sent is data encoded as the content type says, as the default type when
\* no encoder is registered for it.
IsEncoded(sent, enctype, data) ==
    CASE enctype = "application/json" ->
            sent.kind = "JSON" /\ IsObjectOf(parse(sent.text), data)
      [] enctype = "multipart/form-data" ->
            sent.kind = "FormData" /\ sent.entries = data
      [] OTHER -> sent.kind = "URLSearchParams" /\ sent.entries = data

\* Request r of descriptor x places the form data `data` as its method requires.
Placed(r, x, data) ==
    /\ r.method = x.method
    /\ r.url.pathname = x.href.pathname
    /\ r.url.hash = x.href.hash
    /\ IF x.method \in {"GET", "DELETE"}
       THEN r.body = NoBody /\ r.url.search = x.href.search \o data
       ELSE r.url = x.href /\ IsEncoded(r.body, x.enctype, data)

(* C11: a GET or DELETE exchange sends no body and every entry of the form  *)
(* data it is built from, repeated names included and in order, as a query  *)
(* parameter of its URL; an exchange of any other method sends the          *)
(* destination URL unchanged and, as its body, the form data encoded with   *)
(* the exchange's content type (the default encoding when no encoder is     *)
(* registered for it).                                                      *)
C11_BodyPlacement ==
    [][\A e \in Exchanges :
          Sends(e) => Placed(Sent(e), ex[e], getData(Cur, ex[e].element))]_vars

(* C11 witness: a DELETE request sent without a body, its two form entries  *)
(* of the same name in its query.                                           *)
C11_Witness ==
    \E e \in Exchanges :
        /\ ex[e].pc = "fetching"
        /\ ex[e].method = "DELETE"
        /\ ex[e].requests[1].body = NoBody
        /\ ex[e].requests[1].url.search = << <<"q", "1">>, <<"q", "b">> >>

(* C12: an exchange whose destination has the javascript: scheme takes the  *)
(* script branch: whet:will-fetch is not dispatched, no request is issued,  *)
(* and the value the script returns is the content handed to the swap.      *)
C12_ScriptBranch ==
    \A e \in Exchanges :
        ex[e].pc \notin {"none", "threw"} /\ ex[e].href.protocol = "javascript:" =>
            /\ ~Has(ex[e], {"whet:will-fetch", "fetch"})
            /\ ex[e].requests = <<>>
            /\ ex[e].content = runJSUri(Cur, ex[e])

\* Exchange e is created in this step.
Creates(e) == ex[e].pc = "none" /\ ex'[e].pc \notin {"none", "threw"}

\* The first element of the document matching sel, orElse when there is none.
FirstMatch(sel, orElse) ==
    IF querySelectorAll(Cur, sel, Document) = <<>> THEN orElse
    ELSE Head(querySelectorAll(Cur, sel, Document))

\* The target of an element whose target attribute is sel.
ExpectedTarget(el, sel, orElse) ==
    CASE sel \in {Null, ""} -> body
      [] sel = ":this" -> el
      [] OTHER -> FirstMatch(sel, orElse)

\* The swap of exchange e, whose response has no invalid directive, ends in
\* this step.
Completes(e) ==
    /\ ex[e].pc = "gotText"
    /\ ex'[e].pc \in {"done", "threw"}
    /\ ~Throwing(ex[e].content)

(* C13, as the specification states it: the target is the trigger element   *)
(* for ':this', the first element matching the selector when it matches,    *)
(* and the document body both when the attribute is absent and when the     *)
(* selector matches nothing. Refuted by a trigger with                      *)
(* data-target="#missing": its target is none.                              *)
C13_Original ==
    [][\A e \in Exchanges :
          Creates(e) =>
              ex'[e].target =
                  ExpectedTarget(ex'[e].element,
                      attr(Cur, ex'[e].element, "target"), body)]_vars

(* C13, amended: the target is the trigger element for ':this', the first   *)
(* element matching the selector when it matches, the document body when    *)
(* the attribute is absent or empty, and none when the selector matches no  *)
(* element; an exchange whose target is none swaps nothing: its swap        *)
(* dispatches no event and mutates nothing.                                 *)
C13_Target ==
    [][\A e \in Exchanges :
          /\ Creates(e) =>
                 ex'[e].target =
                     ExpectedTarget(ex'[e].element,
                         attr(Cur, ex'[e].element, "target"), NoNode)
          /\ Completes(e) /\ ex[e].target = NoNode =>
                 /\ kids' = kids
                 /\ ex'[e].log = ex[e].log
                 /\ ex'[e].pc = "done"]_vars

\* C13 witness: an exchange whose target selector matched nothing is done.
C13_Witness ==
    \E e \in Exchanges :
        /\ ex[e].pc = "done"
        /\ attr(Cur, ex[e].element, "target") = "#missing"
        /\ ex[e].target = NoNode
        /\ Len(ex[e].log) = FetchLen

(* C14: the nodes a primary swap inserts hold no opt-in template of the     *)
(* response: no opt-in template parsed from a response is in the document.  *)
C14_TemplatesRemoved ==
    \A n \in ResponseNodes :
        InDocument(kids, n) =>
            ~Matches(Cur, n, "template[whet], template[data-whet]")

\* The content of the template of body b whose target is #out.
ElsewhereContent(e, b) ==
    CASE b = "tpl" -> <<RNode(e, 3)>>
      [] b = "two" -> <<RNode(e, 4)>>
      [] OTHER -> <<>>

(* C15: when the response holds an opt-in template whose target #out is in  *)
(* the document, the swap leaves the template's content as the content of   *)
(* #out, whatever the primary swap's target is, provided the primary swap   *)
(* does not itself write into #out or an ancestor of it.                    *)
C15_Elsewhere ==
    [][\A e \in Exchanges :
          /\ Completes(e)
          /\ ex[e].content \in {"tpl", "two"}
          /\ InDocument(kids, out)
          /\ ex[e].target \notin {out, body}
          => kids'[out] = ElsewhereContent(e, ex[e].content)]_vars

\* The steps of the elsewhere swaps of body b: its directive for #missing
\* adds none, its directive for #out adds those of one insert when #out is
\* in the document.
ElsewhereSteps(el, b) ==
    IF b \in {"tpl", "two"} /\ InDocument(kids, out)
    THEN SwapSteps(el, out)
    ELSE <<>>

(* C16: an elsewhere directive whose target selector matches nothing is     *)
(* skipped without error: it dispatches no event and mutates nothing, and   *)
(* the other elsewhere swaps and the primary swap of the response proceed.  *)
C16_SelectorMiss ==
    [][\A e \in Exchanges :
          Completes(e) /\ ex[e].target # NoNode =>
              /\ ex'[e].pc = "done"
              /\ NewSteps(e) =
                     ElsewhereSteps(ex[e].element, ex[e].content)
                         \o SwapSteps(ex[e].element, ex[e].target)]_vars

(* C16 witness: a response with a directive for #missing and one for #out   *)
(* has been swapped: two inserts, none for #missing.                        *)
C16_Witness ==
    \E e \in Exchanges :
        /\ ex[e].pc = "done"
        /\ ex[e].content = "two"
        /\ SwapRuns(ex[e]) = 2
        /\ ~\E i \in DOMAIN ex[e].log : ex[e].log[i].on = NoNode

\* The nodes of body b a fragment selects, as indices, in document order.
Selected(hash, b) ==
    CASE hash \in {"", "#:~:selector="} -> BodyTop(b)
      [] hash = "#:~:selector=%2Eitem" /\ b = "tpl" -> <<4, 5>>
      [] hash = "#results" /\ b = "tpl" -> <<1>>
      [] OTHER -> <<>>

\* Exchange e replaces the children of #out by its primary content.
ReplacesOut(e) ==
    /\ Completes(e)
    /\ ex[e].target = out
    /\ ex[e].swap = "replaceChildren"

(* C17: the primary content follows the destination's fragment: with        *)
(* '#:~:selector=<sel>' it is the nodes of the response matching <sel>, in  *)
(* document order; with a bare '#id' the nodes matching '#id'; with no      *)
(* fragment or an empty selector the top-level children of the response.    *)
C17_FragmentSelects ==
    [][\A e \in Exchanges :
          ReplacesOut(e) =>
              kids'[out] =
                  [i \in DOMAIN Selected(ex[e].href.hash, ex[e].content) |->
                      RNode(e, Selected(ex[e].href.hash, ex[e].content)[i])]]_vars

\* C17 witness: the two .item elements of a response are the content of #out.
C17_Witness ==
    \E e \in Exchanges :
        /\ ex[e].pc = "done"
        /\ ex[e].href.hash = "#:~:selector=%2Eitem"
        /\ kids[out] = <<RNode(e, 4), RNode(e, 5)>>

\* The primary swap of exchange e, whose fragment selects nothing, returns.
SwapsNothing(e) ==
    /\ Completes(e)
    /\ ex[e].target # NoNode
    /\ ex[e].content \in {"text", "ctl"}
    /\ Selected(ex[e].href.hash, ex[e].content) = <<>>

(* C18: when the fragment selector matches no node of the response the      *)
(* swap events are dispatched and the mutation changes nothing: the tree    *)
(* of the document is as it was.                                            *)
C18_EmptyIsNoOp ==
    [][\A e \in Exchanges :
          SwapsNothing(e) =>
              /\ NewSteps(e) = SwapSteps(ex[e].element, ex[e].target)
              /\ \A n \in PageNodes : kids'[n] = kids[n]]_vars

(* C19: installing an element binds every attribute whose name starts with  *)
(* 'on' and is no native handler attribute, wherever it stands among the    *)
(* attributes: on:whet:will-swap binds whet:will-swap,                      *)
(* on-otherlibrary-event binds otherlibrary-event, on::did-swap binds       *)
(* whet:did-swap.                                                           *)
C19_InlineBound ==
    btn \in installed /\ page.on \in {"first", "last", "builtin"} =>
        inst[btn].inline = {"whet:will-swap", "otherlibrary-event", "whet:did-swap"}

\* The steps of the installation of one element, in order.
InstallSteps == <<"add", "whet:will-install", "bind", "inline", "whet:init">>

\* The exchanges element n has started for event type.
StartedOn(n, type) ==
    {e \in Exchanges : ex[e].pc # "none" /\ ex[e].element = n /\ ex[e].event.type = type}

(* C20: an installed element went through the steps in this order: it       *)
(* entered the installed set, whet:will-install was dispatched, the trigger *)
(* listener was bound, the inline listeners were bound, whet:init was       *)
(* dispatched. So an element whose trigger event is whet:init has started   *)
(* exactly one exchange by its installation, and no trigger or inline       *)
(* listener of an element has observed that element's whet:will-install.    *)
C20_InstallOrder ==
    \A n \in Nodes :
        n \in installed =>
            /\ inst[n].order = InstallSteps
            /\ inst[n].event = "whet:init" => Cardinality(StartedOn(n, "whet:init")) = 1
            /\ StartedOn(n, "whet:will-install") = {}
            /\ "whet:will-install" \notin inst[n].heard

(* C20 witness: a link triggered by whet:init has been installed and has    *)
(* started its one exchange.                                                *)
C20_Witness ==
    /\ lnk \in installed
    /\ inst[lnk].event = "whet:init"
    /\ inst[lnk].order = InstallSteps
    /\ StartedOn(lnk, "whet:init") = {1}
    /\ ex[1].log # <<>>

\* The swap of exchange e puts node n of its response into the document.
Inserts(e, n) ==
    /\ ex[e].pc = "gotText"
    /\ ex'[e].pc # "gotText"
    /\ n \in Range(Descendants(kids', Document))

(* C21: once a swap has mutated the document, every opt-in element among    *)
(* the nodes it inserted and their descendants is in the installed set and  *)
(* has its trigger listener, and a whet:did-swap listener already finds it  *)
(* so; no call of install() is needed.                                      *)
C21_InsertedLive ==
    [][\A e \in Exchanges : \A n \in {m \in ResponseNodes : m[1] = e} :
          Inserts(e, n) /\ Matches(Cur, n, OptInSelector) =>
              /\ n \in installed'
              /\ inst'[n].bound = 1
              /\ inst'[n].event = "click"
              /\ n \in ex'[e].live]_vars

(* C21 witness: the button nested in the paragraph of a response is in the  *)
(* document, installed, and was so when whet:did-swap was dispatched.       *)
C21_Witness ==
    \E e \in Exchanges :
        /\ ex[e].content = "nest"
        /\ Parent(kids, RNode(e, 2)) = RNode(e, 1)
        /\ InDocument(kids, RNode(e, 2))
        /\ RNode(e, 2) \in installed
        /\ RNode(e, 2) \in ex[e].live

\* The states of an exchange that has failed.
FailedStates == {"caught", "failed", "threw"}

\* Exchange e fails in this step.
Fails(e) == ex[e].pc \notin FailedStates /\ ex'[e].pc \in FailedStates

(* C22: a failure of an exchange (invalid swap style, transport error,      *)
(* rejected deferral, error raised while swapping) leaves the installed     *)
(* set, the encoders and the listeners of every element as they were; the   *)
(* element of a failed exchange keeps its trigger listener, and an exchange *)
(* started after a failure starts afresh: it is actuated and dispatches     *)
(* whet:will-fetch whatever became of the earlier one.                      *)
C22_FailureIsolated ==
    [][\A e \in Exchanges :
          /\ Fails(e) =>
                 /\ installed' = installed
                 /\ inst' = inst
                 /\ encoders' = encoders
          /\ ex'[e].pc \in FailedStates =>
                 /\ ex'[e].element \in installed'
                 /\ inst'[ex'[e].element].bound = 1
          /\ (Creates(e) /\ \E f \in Exchanges : ex[f].pc \in FailedStates) =>
                 /\ ex'[e].pc = "waiting"
                 /\ Trace(ex'[e].log) =
                        SubSeq(FetchSteps(ex'[e].element), 1, 2)]_vars

(* C22 witness: after an exchange of an element failed in transport, a      *)
(* second exchange of the same element has run to completion.               *)
C22_Witness ==
    /\ ex[1].pc = "failed"
    /\ ex[2].pc = "done"
    /\ ex[2].element = ex[1].element
    /\ SwapRuns(ex[2]) = 1

(* C23: the response field of a descriptor is set only once the headers     *)
(* have arrived, the response body only once it has been read, and neither  *)
(* is set in an exchange for which whet:fetch-error has been dispatched.    *)
C23_FieldsAfterSuccess ==
    \A e \in Exchanges :
        /\ ex[e].response # NoResponse => Has(ex[e], {"whet:did-fetch-headers"})
        /\ ex[e].responseText # Null => Has(ex[e], {"text"})
        /\ Has(ex[e], {"whet:fetch-error"}) =>
               ex[e].response = NoResponse /\ ex[e].responseText = Null

\* Element el has an attribute of this name.
Present(el, name) ==
    \E i \in DOMAIN Attributes(Cur, el) : Attributes(Cur, el)[i][1] = name

\* The value of the attribute of this name.
ValueOf(el, name) ==
    Attributes(Cur, el)[CHOOSE i \in DOMAIN Attributes(Cur, el) :
                           Attributes(Cur, el)[i][1] = name][2]

\* The value of the first of the attributes `names` the element has, absent
\* (null) when it has none.
RECURSIVE FirstOf(_, _)
FirstOf(el, names) ==
    IF names = <<>> THEN Null
    ELSE IF Present(el, Head(names)) THEN ValueOf(el, Head(names))
    ELSE FirstOf(el, Tail(names))

\* The three spellings of a logical attribute name, in order of precedence.
Spellings(name) == <<"data-" \o name, "form" \o name, name>>

(* C24: the logical attribute <name> of an element is the value of          *)
(* data-<name> if present, else of form<name> if present, else of <name>    *)
(* if present, else absent; the target of a descriptor is resolved from     *)
(* the selector so found.                                                   *)
C24_AttrPrecedence ==
    [][\A e \in Exchanges :
          Creates(e) =>
              /\ \A name \in {"target", "method", "enctype", "action", "href", "src"} :
                     attr(Cur, ex'[e].element, name)
                         = FirstOf(ex'[e].element, Spellings(name))
              /\ ex'[e].target =
                     ExpectedTarget(ex'[e].element,
                         FirstOf(ex'[e].element, Spellings("target")), NoNode)]_vars

(* C24 witness: an element with data-target="#out" and target="#missing"    *)
(* has started an exchange whose target is #out.                            *)
C24_Witness ==
    \E e \in Exchanges :
        /\ ex[e].pc # "none"
        /\ Present(ex[e].element, "data-target")
        /\ Present(ex[e].element, "target")
        /\ ValueOf(ex[e].element, "target") = "#missing"
        /\ ex[e].target = out

\* The method a method attribute of the pages stands for.
MethodNamed(given) ==
    CASE given \in {"put", "pUt"} -> "PUT"
      [] given = "delete" -> "DELETE"
      [] given = "get" -> "GET"

(* C25: the method of an exchange is the method attribute in upper case     *)
(* when one is given, otherwise GET when the trigger is an anchor or a      *)
(* form, otherwise POST.                                                    *)
C25_Method ==
    [][\A e \in Exchanges :
          Creates(e) =>
              ex'[e].method =
                  IF FirstOf(ex'[e].element, Spellings("method")) # Null
                  THEN MethodNamed(FirstOf(ex'[e].element, Spellings("method")))
                  ELSE IF Tag(Cur, ex'[e].element) \in {"a", "form"} THEN "GET"
                  ELSE "POST"]_vars

(* C25 witness: an anchor has started a GET exchange and a button without   *)
(* a method attribute a POST exchange.                                      *)
C25_Witness ==
    /\ ex[1].element = lnk /\ ex[1].method = "GET"
    /\ ex[2].element = btn /\ ex[2].method = "POST"
    /\ FirstOf(btn, Spellings("method")) = Null

\* The attributes a destination is resolved from, in order of precedence.
HrefAttributes ==
    <<"data-action", "formaction", "action", "data-href", "formhref", "href",
      "data-src", "formsrc", "src">>

(* C26: the destination of an exchange is the first present of data-action, *)
(* formaction, action, data-href, formhref, href, data-src, formsrc, src,   *)
(* resolved against the location of the document (http://host/) when the   *)
(* descriptor is created; the location itself when none is present.         *)
C26_Destination ==
    [][\A e \in Exchanges :
          Creates(e) =>
              /\ ex'[e].href.protocol = "http:"
              /\ ex'[e].href.hash = ""
              /\ ex'[e].href.pathname =
                     IF FirstOf(ex'[e].element, HrefAttributes) = Null THEN "/"
                     ELSE FirstOf(ex'[e].element, HrefAttributes)]_vars

(* C26 witness: a button with href="/h" and action="/a" has sent its        *)
(* request to /a.                                                           *)
C26_Witness ==
    \E e \in Exchanges :
        /\ ex[e].requests # <<>>
        /\ Present(ex[e].element, "href")
        /\ Present(ex[e].element, "action")
        /\ ex[e].requests[1].url.pathname = "/a"

\* The event an element is actuated by.
ExpectedEvent(el) ==
    IF FirstOf(el, Spellings("event")) # Null THEN FirstOf(el, Spellings("event"))
    ELSE CASE Tag(Cur, el) = "form" -> "submit"
           [] Tag(Cur, el) \in {"textarea", "select"} -> "change"
           [] Tag(Cur, el) = "input"
                  /\ FirstOf(el, <<"type">>) \notin {"button", "submit", "reset"} -> "change"
           [] OTHER -> "click"

(* C27: the trigger event bound at installation is the event attribute when *)
(* given, otherwise submit for a form, change for a textarea, a select or   *)
(* an input that is no button, click for any other element; each firing of  *)
(* a bound handler begins exactly one exchange, for that event and the      *)
(* handler's element, with the default of the event prevented (an event     *)
(* fires the handler of each control it passes through, one after another). *)
C27_TriggerEvent ==
    [][/\ \A n \in PageNodes :
             n \in installed' => inst'[n].event = ExpectedEvent(n)
       /\ nextEx' # nextEx =>
             /\ nextEx' = nextEx + 1
             /\ inst'[ex'[nextEx].element].bound > 0
             /\ ex'[nextEx].event.type = ExpectedEvent(ex'[nextEx].element)
             /\ ex'[nextEx].event.cancelable => ex'[nextEx].event.defaultPrevented
             /\ \A e \in Exchanges \ {nextEx} : ex'[e] = ex[e]]_vars

(* C27 witness: a form has been submitted, its submit event canceled, and   *)
(* its exchange is done.                                                    *)
C27_Witness ==
    \E e \in Exchanges :
        /\ ex[e].pc = "done"
        /\ ex[e].element = form1
        /\ ex[e].event.type = "submit"
        /\ ex[e].event.defaultPrevented

\* The entries a named control adds to the form data for itself.
OwnEntry(el) ==
    IF isFormControl(Cur, el) /\ FirstOf(el, <<"name">>) \notin {Null, ""}
    THEN << <<ControlName(Cur, el), ControlValue(Cur, el)>> >>
    ELSE <<>>

(* C28: the form data of an element is the entries of the form it is        *)
(* associated with, then those of the element itself if it is a form, then  *)
(* its own name and value if it is a named control, repeated names kept;    *)
(* an unnamed control adds no entry of its own.                             *)
C28_FormData ==
    [][\A e \in Exchanges :
          Creates(e) =>
              ex'[e].data =
                  FormEntries(Cur, getAssociatedForm(Cur, ex'[e].element))
                      \o (IF Tag(Cur, ex'[e].element) = "form"
                          THEN FormData(Cur, ex'[e].element) ELSE <<>>)
                      \o OwnEntry(ex'[e].element)]_vars

\* The body the default encoder gives for data.
DefaultEncoded(data) == [kind |-> "URLSearchParams", entries |-> data, text |-> ""]

\* Exchange e sends a request with a body in this step.
SendsBody(e) == Sends(e) /\ ex[e].method \notin {"GET", "DELETE"}

(* C29: a content type without a registered encoder is recovered from: one  *)
(* diagnostic is logged, the body is what the default encoder gives for the *)
(* same data, and the request is issued; a content type with a registered   *)
(* encoder is encoded by the encoder registered last for it, without a      *)
(* diagnostic.                                                              *)
C29_EncoderLookup ==
    [][\A e \in Exchanges :
          SendsBody(e) =>
              IF ex[e].enctype \in DOMAIN encoders
              THEN /\ Sent(e).body.kind = encoders[ex[e].enctype]
                   /\ ex'[e].console = <<>>
              ELSE /\ Sent(e).body = DefaultEncoded(getData(Cur, ex[e].element))
                   /\ ex'[e].console = << <<ex[e].element, ex[e].enctype>> >>
                   /\ ex'[e].pc = "fetching"]_vars

(* C29 witness: one exchange was sent as text/plain while no encoder was    *)
(* registered for it (URL-encoded, with a diagnostic), and a later one      *)
(* with the encoder the page registered second.                             *)
C29_Witness ==
    /\ ex[1].enctype = "text/plain"
    /\ ex[1].console # <<>>
    /\ ex[1].requests[1].body.kind = "URLSearchParams"
    /\ ex[2].requests # <<>>
    /\ ex[2].requests[1].body.kind = "PageEncoderB"

\* The names of a sequence of entries.
Names(entries) == {entries[i][1] : i \in DOMAIN entries}

\* Exchange e sends a body encoded by the module's JSON encoder in this step.
SendsJSON(e) ==
    /\ SendsBody(e)
    /\ ex[e].enctype = "application/json"
    /\ encoders["application/json"] = "JSON"

\* obj has one member per name of data, with the last value data has for it.
RoundTrips(obj, data) ==
    /\ Names(obj) = Names(data)
    /\ Len(obj) = Cardinality(Names(data))
    /\ \A i \in DOMAIN obj :
           \A k \in DOMAIN data :
               (data[k][1] = obj[i][1] /\ \A m \in (k + 1)..Len(data) : data[m][1] # obj[i][1])
                   => obj[i][2] = data[k][2]
    /\ Len(data) = Cardinality(Names(data)) => obj = data

(* C30: parsing the application/json encoding of form data gives an object  *)
(* with one value per distinct field name: the original pairs when no name  *)
(* is repeated, the last value collected for a repeated name.               *)
C30_JsonRoundTrip ==
    [][\A e \in Exchanges :
          SendsJSON(e) =>
              RoundTrips(parse(Sent(e).body.text), getData(Cur, ex[e].element))]_vars

(* C30 witness: form data with the name q twice, values 1 and b, was sent   *)
(* as JSON and parses to the one pair of q and b.                           *)
C30_Witness ==
    \E e \in Exchanges :
        /\ ex[e].requests # <<>>
        /\ ex[e].requests[1].body.kind = "JSON"
        /\ ex[e].data = << <<"q", "1">>, <<"q", "b">> >>
        /\ parse(ex[e].requests[1].body.text) = << <<"q", "b">> >>

(* C31: every request an exchange issues, whatever its method, its content  *)
(* type and its element, carries the header Whet: 1; each request the       *)
(* exchange sends is one of those recorded.                                 *)
C31_MarkerHeader ==
    \A e \in Exchanges :
        /\ Count(ex[e].log, "fetch") = Len(ex[e].requests)
        /\ \A i \in DOMAIN ex[e].requests :
               ex[e].requests[i].headers = << <<"Whet", "1">> >>

(* C31 witness: a form has sent a GET request without a body and a button  *)
(* of the same page a POST request with a body, both with the header.        *)
C31_Witness ==
    \E e, f \in Exchanges :
        /\ ex[e].element = form1
        /\ ex[e].requests # <<>>
        /\ ex[e].requests[1].method = "GET"
        /\ ex[e].requests[1].body = NoBody
        /\ ex[e].requests[1].headers = << <<"Whet", "1">> >>
        /\ ex[f].element = btn
        /\ ex[f].requests # <<>>
        /\ ex[f].requests[1].method = "POST"
        /\ ex[f].requests[1].body.kind = "URLSearchParams"
        /\ ex[f].requests[1].headers = << <<"Whet", "1">> >>

(* C32: each time the trigger of an installed element fires, the event      *)
(* whet:actuated is dispatched on that element with the exchange descriptor *)
(* as its detail, as the first step of the exchange: before whet:will-fetch *)
(* and before any failure of the exchange.                                  *)
C32_ActuatedFirst ==
    \A e \in Exchanges :
        ex[e].pc # "none" =>
            /\ ex[e].log # <<>>
            /\ ex[e].log[1].t = "whet:actuated"
            /\ ex[e].log[1].on = ex[e].element
            /\ ex[e].log[1].detail = "context"

(* C33: within one swap of a response the elsewhere swaps come first, in    *)
(* the document order of their templates and each with its five steps       *)
(* (whet:will-swap, whet:will-be-swapped, mutation, whet:did-swap,          *)
(* whet:was-swapped-away); the whet:will-swap and the mutation of the       *)
(* primary swap follow the last of them.                                    *)
C33_ElsewhereFirst ==
    [][\A e \in Exchanges :
          Completes(e) /\ ex[e].target # NoNode =>
              NewSteps(e) =
                  DirectiveSteps(ex[e].element, DirectiveTargets(ex[e].content))
                      \o SwapSteps(ex[e].element, ex[e].target)]_vars

(* C33 witness: a response with a template for #out and then one for #f    *)
(* has been swapped by a button whose target is itself: the swap into #out, *)
(* the swap into the form, then the primary swap into the button.           *)
C33_Witness ==
    \E e \in Exchanges :
        /\ ex[e].pc = "done"
        /\ ex[e].content = "both"
        /\ ex[e].target = btn
        /\ SwapRuns(ex[e]) = 3
        /\ SwapRun(Trace(ex[e].log), 1) = SwapSteps(btn, out)
        /\ SwapRun(Trace(ex[e].log), 2) = SwapSteps(btn, form1)
        /\ SwapRun(Trace(ex[e].log), 3) = SwapSteps(btn, btn)

\* The targets of the swaps of a response whose directives name `targets`:
\* those the document has, then the primary target.
SwapTargets(targets, primary) ==
    SelectSeq(targets, LAMBDA t : t # NoNode /\ InDocument(kids, t)) \o <<primary>>

\* The entries exchange e adds to its history in this step.
NewLog(e) == SubSeq(ex'[e].log, Len(ex[e].log) + 1, Len(ex'[e].log))

\* The number of entries of `log` for event `type` on node `n` whose detail is
\* the exchange's descriptor.
Dispatched(log, type, n) ==
    Cardinality({i \in DOMAIN log :
        log[i].t = type /\ log[i].on = n /\ log[i].detail = "context"})

\* The number of entries of `targets` that are node n.
Occurrences(targets, n) == Cardinality({i \in DOMAIN targets : targets[i] = n})

(* C34: a swap of a response with k elsewhere directives whose targets      *)
(* resolve dispatches whet:will-swap and whet:did-swap on the trigger       *)
(* element k + 1 times each, always with the exchange's descriptor, whose   *)
(* target stays the primary target; whet:will-be-swapped and                *)
(* whet:was-swapped-away are dispatched on a node once for each swap whose  *)
(* target it is.                                                            *)
C34_SwapEventCounts ==
    [][\A e \in Exchanges :
          Completes(e) /\ ex[e].target # NoNode =>
              /\ ex'[e].target = ex[e].target
              /\ \A type \in {"whet:will-swap", "whet:did-swap"} :
                     /\ Dispatched(NewLog(e), type, ex[e].element)
                            = Len(SwapTargets(DirectiveTargets(ex[e].content),
                                      ex[e].target))
                     /\ Count(NewLog(e), type)
                            = Dispatched(NewLog(e), type, ex[e].element)
              /\ \A type \in {"whet:will-be-swapped", "whet:was-swapped-away"} :
                     \A n \in PageNodes :
                         /\ Dispatched(NewLog(e), type, n)
                                = Occurrences(
                                      SwapTargets(DirectiveTargets(ex[e].content),
                                          ex[e].target), n)
                         /\ Count(NewLog(e), type)
                                = Len(SwapTargets(DirectiveTargets(ex[e].content),
                                          ex[e].target))]_vars

(* C34 witness: a response with two resolving directives has been swapped: *)
(* whet:will-swap and whet:did-swap three times on the button,              *)
(* whet:will-be-swapped once on each of #out, the form and the button.      *)
C34_Witness ==
    \E e \in Exchanges :
        /\ ex[e].pc = "done"
        /\ ex[e].content = "both"
        /\ ex[e].element = btn
        /\ ex[e].target = btn
        /\ Dispatched(ex[e].log, "whet:will-swap", btn) = 3
        /\ Dispatched(ex[e].log, "whet:did-swap", btn) = 3
        /\ \A n \in {out, form1, btn} :
               /\ Dispatched(ex[e].log, "whet:will-be-swapped", n) = 1
               /\ Dispatched(ex[e].log, "whet:was-swapped-away", n) = 1

\* The statuses of the responses that report an error of the server.
ErrorStatuses == {"404", "500"}

\* The tree the swap of exchange e gives when the status of its response is 200.
SwappedAsOk(e) == swap([Cur EXCEPT !.ex[e].response.status = "200"], e).kids

(* C35: a response with an error status is no transport failure:            *)
(* whet:did-fetch-headers is dispatched for it; once its body is read       *)
(* whet:did-fetch is dispatched, whet:fetch-error is not, and the body is   *)
(* the content of the exchange; the swap dispatches the events and leaves   *)
(* the tree it does for the same body with status 200.                      *)
C35_ErrorStatus ==
    [][\A e \in Exchanges :
          ex'[e].response.status \in ErrorStatuses =>
              /\ Has(ex'[e], {"whet:did-fetch-headers"})
              /\ Has(ex'[e], {"text"}) =>
                     /\ Has(ex'[e], {"whet:did-fetch"})
                     /\ ~Has(ex'[e], {"whet:fetch-error"})
                     /\ ex'[e].content = ex'[e].response.body
              /\ Completes(e) /\ ex[e].target # NoNode =>
                     /\ ex'[e].pc = "done"
                     /\ NewSteps(e) =
                            DirectiveSteps(ex[e].element,
                                DirectiveTargets(ex[e].content))
                                \o SwapSteps(ex[e].element, ex[e].target)
                     /\ kids' = SwappedAsOk(e)]_vars

(* C35 witness: the text of a 404 response is the content of #out, and no   *)
(* whet:fetch-error was dispatched.                                         *)
C35_Witness ==
    \E e \in Exchanges :
        /\ ex[e].pc = "done"
        /\ ex[e].response.status = "404"
        /\ ex[e].content = "text"
        /\ kids[out] = <<RNode(e, 1)>>
        /\ Has(ex[e], {"whet:did-fetch"})
        /\ ~Has(ex[e], {"whet:fetch-error"})

\* A promise the dispatcher of whet:will-fetch awaits for x has rejected.
Rejected(x) == \E i \in x.awaited : x.promises[i] = "rejected"

(* C36: when a promise given to waitUntil while whet:will-fetch is           *)
(* dispatched rejects, the exchange ends there with an error: its next step *)
(* is the end of actuate by the error thrown, it issues no request,         *)
(* whet:fetch-error is not dispatched, and no swap event or mutation        *)
(* occurs.                                                                  *)
C36_RejectedDeferral ==
    [][\A e \in Exchanges :
          /\ Rejected(ex'[e]) =>
                 /\ ex'[e].pc \in {"waiting", "threw"}
                 /\ ex'[e].requests = <<>>
                 /\ ex'[e].content = Null
                 /\ Trace(ex'[e].log) = SubSeq(FetchSteps(ex'[e].element), 1, 2)
          /\ Rejected(ex[e]) /\ ex[e].pc = "waiting" =>
                 /\ ex'[e].pc = "threw"
                 /\ kids' = kids]_vars

(* C36 witness: the exchange of a listener whose promise rejected has       *)
(* ended by the error, after actuated and whet:will-fetch only.             *)
C36_Witness ==
    \E e \in Exchanges :
        /\ ex[e].pc = "threw"
        /\ ex[e].awaited = {1}
        /\ ex[e].promises[1] = "rejected"
        /\ ex[e].requests = <<>>
        /\ Len(ex[e].log) = 2

\* The children of #out once the templates before the invalid one are swapped.
EarlierApplied(e, b) ==
    IF b = "mixed" /\ InDocument(kids, out) THEN Append(kids[out], RNode(e, 4))
    ELSE kids[out]

\* The swap of exchange e, whose response has a template with an invalid swap
\* style, ends in this step.
Stops(e) ==
    /\ ex[e].pc = "gotText"
    /\ ex'[e].pc # "gotText"
    /\ Throwing(ex[e].content)
    /\ ex[e].target # NoNode

(* C37: an invalid swap style on an elsewhere template is found only once   *)
(* the request is complete and the body read; the error stops the swap at   *)
(* that template: the elsewhere swaps of the templates before it stay       *)
(* applied, those of the templates after it and the primary swap are not    *)
(* performed, and none of their events is dispatched.                       *)
C37_InvalidElsewhere ==
    [][\A e \in Exchanges :
          Stops(e) =>
              /\ Trace(ex[e].log) = FetchSteps(ex[e].element)
              /\ ex'[e].pc = "threw"
              /\ NewSteps(e) =
                     DirectiveSteps(ex[e].element, EarlierTargets(ex[e].content))
              /\ kids'[out] = EarlierApplied(e, ex[e].content)
              /\ \A n \in PageNodes \ {out} : kids'[n] = kids[n]]_vars

(* C37 witness: of a response with a valid, an invalid and a valid template *)
(* the content of the first is in #out; the content of the third is in no   *)
(* element of the document and the exchange has ended by the error.         *)
C37_Witness ==
    \E e \in Exchanges :
        /\ ex[e].pc = "threw"
        /\ ex[e].content = "mixed"
        /\ kids[out] = <<RNode(e, 4)>>
        /\ ~InDocument(kids, RNode(e, 5))
        /\ Trace(ex[e].log) = FetchSteps(ex[e].element) \o SwapSteps(ex[e].element, out)

\* The swap of exchange e, whose response is an opt-in template without a
\* target attribute followed by text, ends in this step.
SwapsBare(e) ==
    /\ Completes(e)
    /\ ex[e].content = "bare"
    /\ ex[e].target # NoNode

(* C38: an opt-in template of the response without a target attribute is    *)
(* processed as an elsewhere swap into the document body with the style     *)
(* replaceChildren: the swap events are dispatched for the body and the     *)
(* children of the body are replaced by the content of the template (the    *)
(* primary swap follows, and replaces them in turn when its target is the   *)
(* body).                                                                   *)
C38_TargetlessTemplate ==
    [][\A e \in Exchanges :
          SwapsBare(e) =>
              /\ SubSeq(NewSteps(e), 1, SwapLen) = SwapSteps(ex[e].element, body)
              /\ NewLog(e)[3].detail = "replaceChildren"
              /\ Len(NewLog(e)) = 2 * SwapLen
              /\ kids'[body] =
                     IF ex[e].target = body THEN <<RNode(e, 1), RNode(e, 2)>>
                     ELSE <<RNode(e, 3)>>
              /\ \A n \in {form1, lnk, out} : ~InDocument(kids', n)]_vars

(* C38 witness: the content of a template without a target is the only     *)
(* child of the body; the form, the link and #out have left the document.   *)
C38_Witness ==
    \E e \in Exchanges :
        /\ ex[e].pc = "done"
        /\ ex[e].content = "bare"
        /\ ex[e].target = out
        /\ kids[body] = <<RNode(e, 3)>>
        /\ ~InDocument(kids, out)
        /\ ~InDocument(kids, form1)

====
